---- MODULE Spec2Model ----
(***************************************************************************)
(* CalculadoraPy: the arbitrary-precision engine                            *)
(* (arbitrary_precision_engine.py), the scrolling result display            *)
(* (calculator_ui.py, ResultDisplay) and the application glue that runs     *)
(* evaluations and precision expansions on worker threads                   *)
(* (calculator_ui.py, CalculatorApp).                                       *)
(*                                                                          *)
(* A text is a sequence of one-character strings.  The one-character        *)
(* ellipsis marker U+2026 of the source is written "..." here: it is ONE    *)
(* element of the sequence and counts as one character.                     *)
(***************************************************************************)
EXTENDS Integers, Sequences, FiniteSets, Bags, TLC

(***************************************************************************)
(* Program constants                                                        *)
(***************************************************************************)
PREFETCH_MARGIN == 15
SCI_FRACTION_WINDOW == 30
VISIBLE_CHARS == 17
PLAIN_TAIL_LAST_EXPONENT == 4
SHOW_SHIFTED_SEPARATOR == FALSE
SCI_NOTATION_EXP_LIMIT == 12

(***************************************************************************)
(* Python's None for an optional integer (no integer of the model is that   *)
(* small) and for an optional text (no text has a several-letter element).  *)
(***************************************************************************)
None == 0 - 1000000
NoneText == <<"None">>
ELLIPSIS == "..."

(***************************************************************************)
(* Characters, integers and slices                                          *)
(***************************************************************************)
DigitChars == <<"0", "1", "2", "3", "4", "5", "6", "7", "8", "9">>
DigitSet == {DigitChars[i] : i \in 1..10}
DigitVal(c) == (CHOOSE i \in 1..10 : DigitChars[i] = c) - 1
Min(a, b) == IF a < b THEN a ELSE b
Max(a, b) == IF a > b THEN a ELSE b
Abs(n) == IF n < 0 THEN 0 - n ELSE n
IsDigits(s) == \A i \in 1..Len(s) : s[i] \in DigitSet

\* Python s[a:b] for 0 <= a, 0 <= b
Slice(s, a, b) == SubSeq(s, a + 1, Min(b, Len(s)))
\* Python s[a:]
SliceFrom(s, a) == SubSeq(s, a + 1, Len(s))
\* Python s[-n:] for n >= 1
LastChars(s, n) == SubSeq(s, Max(1, Len(s) - n + 1), Len(s))
\* Python "0" * n
Zeros(n) == [i \in 1..Max(0, n) |-> "0"]

RECURSIVE NatToText(_)
NatToText(n) ==
    IF n < 10 THEN <<DigitChars[n + 1]>>
    ELSE NatToText(n \div 10) \o <<DigitChars[(n % 10) + 1]>>

\* Python f"{n:+d}"
SignedText(n) == (IF n < 0 THEN <<"-">> ELSE <<"+">>) \o NatToText(Abs(n))

RECURSIVE TextToNat(_)
TextToNat(s) ==
    IF Len(s) = 0 THEN 0
    ELSE 10 * TextToNat(SubSeq(s, 1, Len(s) - 1)) + DigitVal(s[Len(s)])

\* Python int(s) for a text [+-]?digits; None when int() would raise ValueError
ParseInt(s) ==
    LET body == IF Len(s) > 0 /\ s[1] \in {"+", "-"} THEN SliceFrom(s, 1) ELSE s
    IN  IF Len(body) = 0 \/ ~IsDigits(body) THEN None
        ELSE IF Len(s) > 0 /\ s[1] = "-" THEN 0 - TextToNat(body)
        ELSE TextToNat(body)

\* Python s.rfind(c): 0-based index of the last c, -1 when absent
RFind(s, c) ==
    LET hits == {i \in 1..Len(s) : s[i] = c}
    IN  IF hits = {} THEN 0 - 1 ELSE (CHOOSE i \in hits : \A j \in hits : j <= i) - 1

\* Python s.find(c): 0-based index of the first c, -1 when absent
Find(s, c) ==
    LET hits == {i \in 1..Len(s) : s[i] = c}
    IN  IF hits = {} THEN 0 - 1 ELSE (CHOOSE i \in hits : \A j \in hits : j >= i) - 1

\* Python s.rstrip("0")
RECURSIVE RStripZeros(_)
RStripZeros(s) ==
    IF Len(s) > 0 /\ s[Len(s)] = "0" THEN RStripZeros(SubSeq(s, 1, Len(s) - 1)) ELSE s

\* a callback scheduled with after(0, ...): the method and its arguments, and
\* (history) whether it comes from a calculate event submitted since the
\* request under way
Callback(fn, text, preserve_view) ==
    [fn |-> fn, text |-> text, preserve_view |-> preserve_view, since |-> FALSE]
\* CalculatorApp._request_more_precision, the display's request_more_callback
RequestMoreCallback == Callback("_request_more_precision", NoneText, FALSE)

\* the text without its ellipsis markers
StripEllipsis(s) == SelectSeq(s, LAMBDA c : c # ELLIPSIS)

(***************************************************************************)
(* ResultDisplay: the layout functions.  `self` is the ResultDisplay        *)
(* object as a record of its fields.                                        *)
(***************************************************************************)
\* a variant of the display that is one character wider
_wider_capacity_chars(self) == VISIBLE_CHARS + 1

_visible_capacity_chars(self) == VISIBLE_CHARS

_effective_shift(self, shift) ==
    IF self._sci_source_kind = "decimal" /\ self._sci_exponent < 0
    THEN Max(0, shift - 1)
    ELSE shift

RECURSIVE _count_trailing_zeros(_)
_count_trailing_zeros(text) ==
    IF Len(text) = 0 \/ text[Len(text)] # "0" THEN 0
    ELSE 1 + _count_trailing_zeros(SubSeq(text, 1, Len(text) - 1))

_integer_trailing_zeros(self) ==
    LET digits == self._sci_digits
        trailing_in_digits == _count_trailing_zeros(digits)
        scale == self._sci_exponent - (Len(digits) - 1)
    IN  IF Len(digits) = 0 THEN 0
        ELSE IF scale < 0 /\ trailing_in_digits < 0 - scale THEN None
        ELSE Max(0, trailing_in_digits + scale)

_can_render_plain_tail(self) ==
    LET trailing_zeros == _integer_trailing_zeros(self)
        zero_threshold == _visible_capacity_chars(self) \div 2
    IN  IF trailing_zeros = None THEN FALSE
        ELSE trailing_zeros <= zero_threshold

_virtual_digits_for_shifting(self) ==
    LET digits == self._sci_digits
        scale == Max(0, self._sci_exponent - (Len(digits) - 1))
    IN  IF Len(digits) = 0 THEN <<>>
        ELSE IF scale <= 0 THEN digits
        ELSE IF ~_can_render_plain_tail(self) THEN digits
        ELSE digits \o Zeros(scale)

\* a variant of the test, against which the fixed view of a short decimal
\* result is tested: one that takes no text as fitting
_initial_text_never_fits(self) == FALSE

_initial_text_fits_visible_window(self) ==
    IF self._sci_source_kind # "decimal" THEN FALSE
    ELSE IF Len(self._sci_initial_text) = 0 THEN TRUE
    ELSE Len(self._sci_initial_text) <= _visible_capacity_chars(self)

\* lines 658-666: for _ in range(4), the mantissa width that leaves room for
\* the exponent suffix
RECURSIVE _mantissa_digits_loop(_, _, _, _, _, _)
_mantissa_digits_loop(self, effective_shift, core_budget, use_separator, mantissa_digits, rounds) ==
    IF rounds = 0 THEN mantissa_digits
    ELSE
        LET exponent == self._sci_exponent - (effective_shift + mantissa_digits - 1)
            exp_text == <<"e">> \o SignedText(exponent)
            budget0 == Max(1, core_budget - Len(exp_text))
            new_budget == IF use_separator THEN Max(1, budget0 - 1) ELSE budget0
        IN  IF new_budget = mantissa_digits THEN mantissa_digits
            ELSE _mantissa_digits_loop(self, effective_shift, core_budget, use_separator,
                                       new_budget, rounds - 1)

\* lines 627-628 (and 561-562, 594-595): the effective shift, kept inside the digits
_clamped_effective_shift(self, shift, digits) ==
    Min(Max(0, _effective_shift(self, shift)), Max(0, Len(digits) - 1))

\* lines 635-646: the plain tail, the last core_budget digits without exponent
_build_plain_tail_text(sign, virtual_digits, effective_shift, core_budget) ==
    LET core_full0 == SliceFrom(virtual_digits, effective_shift)
        pull_back == Len(core_full0) < core_budget /\ effective_shift > 0
        missing == core_budget - Len(core_full0)
        effective_shift1 == IF pull_back THEN Max(0, effective_shift - missing)
                            ELSE effective_shift
        core_full == SliceFrom(virtual_digits, effective_shift1)
        is_full_width == Len(core_full) >= core_budget
        core == IF is_full_width THEN LastChars(core_full, core_budget) ELSE core_full
    IN  [text |-> sign \o <<ELLIPSIS>> \o core, is_full_width |-> is_full_width]

\* lines 668-685: the mantissa digits and the exponent once the mantissa width is known
_build_mantissa_text(self, virtual_digits, effective_shift, core_budget, use_separator, mantissa_digits) ==
    LET available_digits == Max(1, Len(virtual_digits) - effective_shift)
        shown_digits0 == Min(available_digits, mantissa_digits)
        exponent0 == self._sci_exponent - (effective_shift + shown_digits0 - 1)
        exp_text0 == <<"e">> \o SignedText(exponent0)
        max_shown == Max(1, core_budget - Len(exp_text0)
                             - (IF use_separator THEN 1 ELSE 0))
        shown_digits == Min(shown_digits0, max_shown)
        exponent == self._sci_exponent - (effective_shift + shown_digits - 1)
        exp_text == <<"e">> \o SignedText(exponent)
        mantissa0 == Slice(virtual_digits, effective_shift,
                           effective_shift + shown_digits)
        frac == RStripZeros(SliceFrom(mantissa0, 1))
        mantissa == IF use_separator /\ Len(mantissa0) > 1
                    THEN IF Len(frac) > 0 THEN <<mantissa0[1], ".">> \o frac
                         ELSE <<mantissa0[1]>>
                    ELSE mantissa0
        core == mantissa \o exp_text
    IN  [text |-> self._sci_sign \o <<ELLIPSIS>> \o core,
         is_full_width |-> Len(core) >= core_budget]

\* lines 634-685: the text at an effective shift
_build_shifted_text_at(self, prefer_plain_tail, virtual_digits, effective_shift, core_budget, use_separator) ==
    IF prefer_plain_tail /\ _can_render_plain_tail(self)
    THEN _build_plain_tail_text(self._sci_sign, virtual_digits, effective_shift, core_budget)
    ELSE _build_mantissa_text(self, virtual_digits, effective_shift, core_budget, use_separator,
             _mantissa_digits_loop(self, effective_shift, core_budget, use_separator,
                 Max(1, IF use_separator THEN Max(1, core_budget - 1) ELSE core_budget), 4))

\* a variant of the shifted text whose budget leaves no room for the sign
_build_shifted_text_ignoring_sign(self, shift, prefer_plain_tail, virtual_digits) ==
    _build_shifted_text_at(self, prefer_plain_tail, virtual_digits,
        _clamped_effective_shift(self, shift, virtual_digits),
        Max(1, _visible_capacity_chars(self)),
        SHOW_SHIFTED_SEPARATOR /\ self._sci_source_kind = "decimal")

\* lines 624-631: the digits that can be shifted over
_build_shifted_text_from(self, shift, prefer_plain_tail, virtual_digits) ==
    _build_shifted_text_at(self, prefer_plain_tail, virtual_digits,
        _clamped_effective_shift(self, shift, virtual_digits),
        Max(1, _visible_capacity_chars(self) - Len(self._sci_sign)),
        SHOW_SHIFTED_SEPARATOR /\ self._sci_source_kind = "decimal")

_build_shifted_scientific_text(self, shift, prefer_plain_tail) ==
    IF Len(self._sci_digits) = 0 THEN [text |-> <<"0">>, is_full_width |-> FALSE]
    ELSE _build_shifted_text_from(self, shift, prefer_plain_tail,
             _virtual_digits_for_shifting(self))

\* lines 507-513: the integer after the last "e" of a text, None without one
_exponent_of_text(text, marker) ==
    IF marker < 0 THEN None
    ELSE ParseInt(SliceFrom(text, marker + 1))

_exponent_of_shifted_text(text) == _exponent_of_text(text, RFind(text, "e"))

_shifted_exponent(self, shift) ==
    _exponent_of_shifted_text(_build_shifted_scientific_text(self, shift, FALSE).text)

\* lines 521-525: no exponent, or one below PLAIN_TAIL_LAST_EXPONENT
_is_plain_tail_exponent(exponent) ==
    IF exponent = None THEN TRUE
    ELSE exponent <= PLAIN_TAIL_LAST_EXPONENT - 1

_should_render_plain_tail(self, shift) ==
    IF shift <= 0 THEN FALSE
    ELSE IF ~_can_render_plain_tail(self) THEN FALSE
    ELSE _is_plain_tail_exponent(_shifted_exponent(self, shift))

_is_exact_integer_scientific_value(self) ==
    IF Len(self._sci_digits) = 0 THEN FALSE
    ELSE self._sci_exponent >= Len(self._sci_digits) - 1

\* lines 534-539: an exponent below PLAIN_TAIL_LAST_EXPONENT
_is_plain_decimal_exponent(exponent) ==
    IF exponent = None THEN FALSE
    ELSE exponent <= PLAIN_TAIL_LAST_EXPONENT - 1

\* a variant that lets exact integers into the plain-decimal window
_plain_decimal_window_for_any_value(self, shift) ==
    IF shift <= 0 THEN FALSE
    ELSE IF ~_is_plain_decimal_exponent(_shifted_exponent(self, shift)) THEN FALSE
    ELSE (self._sci_exponent + 1) - _effective_shift(self, shift) >= 0

_should_render_plain_decimal_window(self, shift) ==
    IF shift <= 0 THEN FALSE
    ELSE IF _is_exact_integer_scientific_value(self) THEN FALSE
    ELSE IF ~_is_plain_decimal_exponent(_shifted_exponent(self, shift)) THEN FALSE
    ELSE (self._sci_exponent + 1) - _effective_shift(self, shift) >= 0

\* the value of _build_plain_decimal_window_text when it returns None
NoWindow == [text |-> NoneText, is_full_width |-> FALSE]

\* lines 564-584: the window of body_width characters that holds the point
_build_plain_decimal_window_at(sign, digits, effective_shift, body_width, dot_pos) ==
    LET digits_needed == IF dot_pos >= body_width THEN body_width
                         ELSE Max(1, body_width - 1)
        chunk == Slice(digits, effective_shift, effective_shift + digits_needed)
        insert_at == Min(Max(0, dot_pos), Len(chunk))
        core == IF dot_pos >= body_width THEN chunk
                ELSE Slice(chunk, 0, insert_at) \o <<".">> \o SliceFrom(chunk, insert_at)
    IN  IF Len(chunk) = 0 THEN NoWindow
        ELSE [text |-> sign \o <<ELLIPSIS>> \o core,
              is_full_width |-> Len(core) >= body_width]

\* lines 561-567: the effective shift and the place of the point
_build_plain_decimal_window_from(self, digits, effective_shift) ==
    _build_plain_decimal_window_at(self._sci_sign, digits, effective_shift,
        Max(1, _visible_capacity_chars(self) - Len(self._sci_sign)),
        (self._sci_exponent + 1) - effective_shift)

\* lines 557-562
_build_plain_decimal_window_of(self, shift, digits) ==
    IF Len(digits) = 0 THEN NoWindow
    ELSE _build_plain_decimal_window_from(self, digits,
             _clamped_effective_shift(self, shift, digits))

_build_plain_decimal_window_text(self, shift) ==
    IF ~_should_render_plain_decimal_window(self, shift) THEN NoWindow
    ELSE _build_plain_decimal_window_of(self, shift, _virtual_digits_for_shifting(self))

\* lines 597-606: the index after the last digit of the window
_plain_decimal_right_edge_at(digits, effective_shift, body_width, dot_pos) ==
    LET digits_needed == IF dot_pos >= body_width THEN body_width
                         ELSE Max(1, body_width - 1)
    IN  Min(Len(digits), effective_shift + digits_needed)

\* lines 594-599
_plain_decimal_right_edge_from(self, digits, effective_shift) ==
    _plain_decimal_right_edge_at(digits, effective_shift,
        Max(1, _visible_capacity_chars(self) - Len(self._sci_sign)),
        (self._sci_exponent + 1) - effective_shift)

\* lines 590-595
_plain_decimal_right_edge_of(self, shift, digits) ==
    IF Len(digits) = 0 THEN None
    ELSE _plain_decimal_right_edge_from(self, digits,
             _clamped_effective_shift(self, shift, digits))

_plain_decimal_right_edge(self, shift) ==
    IF ~_should_render_plain_decimal_window(self, shift) THEN None
    ELSE _plain_decimal_right_edge_of(self, shift, _virtual_digits_for_shifting(self))

_plain_decimal_dot_position(self, shift) ==
    IF ~_should_render_plain_decimal_window(self, shift) THEN None
    ELSE (self._sci_exponent + 1) - _effective_shift(self, shift)

_allow_underfull_progress(self, shift) ==
    shift > 0 /\ _can_render_plain_tail(self)

\* a variant of the initial text that is not cut to the width
_initial_text_untruncated(self) == self._sci_initial_text

_initial_visible_text(self) ==
    LET text == self._sci_initial_text
        capacity == _visible_capacity_chars(self)
    IN  IF self._sci_source_kind # "decimal" THEN text
        ELSE IF Len(text) <= capacity THEN text
        ELSE Slice(text, 0, capacity)

_is_plain_decimal_dot_start_state(self) ==
    IF ~_should_render_plain_decimal_window(self, self._sci_shift) THEN FALSE
    ELSE _plain_decimal_dot_position(self, self._sci_shift) = 0

_format_initial_scientific(self) ==
    LET exponent == self._sci_exponent
        exp_text == <<"e">> \o SignedText(exponent)
        budget == Max(1, _visible_capacity_chars(self) - Len(self._sci_sign) - Len(exp_text))
        first == <<self._sci_digits[1]>>
        second == Slice(self._sci_digits, 1, 2)
        frac == Slice(self._sci_digits, 1, 1 + (budget - 2))
        mantissa == IF budget = 1 THEN first
                    ELSE IF budget = 2 THEN first \o second
                    ELSE IF Len(frac) > 0 THEN first \o <<".">> \o frac
                    ELSE first
    IN  self._sci_sign \o mantissa \o exp_text

(***************************************************************************)
(* ResultDisplay: rendering, scrolling, prefetch trigger, set_text          *)
(***************************************************************************)
\* Variants of the display's methods, against which the display's properties
\* are tested: a preview that is never the text shown.
_preview_nothing(self, shift) == <<>>

\* lines 327-337 and 367-375: the shifted text when no plain-decimal window applies
_terminal_aware_text(self, shift) ==
    LET at_terminal_shift ==
            IF _can_render_plain_tail(self) THEN _should_render_plain_tail(self, shift)
            ELSE ~_build_shifted_scientific_text(self, shift + 1, FALSE).is_full_width
    IN  _build_shifted_scientific_text(self, shift, at_terminal_shift).text

\* lines 323-337: the window text when there is one
_preview_shifted_text(self, shift, plain_decimal) ==
    IF plain_decimal # NoWindow THEN plain_decimal.text
    ELSE _terminal_aware_text(self, shift)

_preview_scientific_text(self, shift) ==
    IF shift <= 0 THEN self._sci_initial_text
    ELSE _preview_shifted_text(self, shift, _build_plain_decimal_window_text(self, shift))

\* lines 350-354: while shift > 0, step back to the last full-width shift
RECURSIVE _render_clamp_loop(_, _)
_render_clamp_loop(self, shift) ==
    IF shift <= 0 THEN shift
    ELSE IF _build_shifted_scientific_text(self, shift, FALSE).is_full_width THEN shift
    ELSE _render_clamp_loop(self, shift - 1)

\* lines 345-354: the shift that is rendered
_render_shift(self, shift) ==
    IF ~(_allow_underfull_progress(self, shift)
         \/ _should_render_plain_decimal_window(self, shift))
    THEN _render_clamp_loop(self, shift)
    ELSE shift

\* lines 360-376: the text of a shift above 0
_render_shifted(self, plain_decimal) ==
    IF plain_decimal # NoWindow /\ ~self._force_scientific_current_shift
    THEN [self EXCEPT !._var = plain_decimal.text]
    ELSE [self EXCEPT !._var = _terminal_aware_text(self, self._sci_shift),
                      !._force_scientific_current_shift = FALSE]

\* lines 356-382, self._sci_shift = shift done
_render_at_shift(self) ==
    IF self._sci_shift = 0 THEN [self EXCEPT !._var = _initial_visible_text(self)]
    ELSE _render_shifted(self, _build_plain_decimal_window_text(self, self._sci_shift))

_render_scientific(self) ==
    IF Len(self._sci_digits) = 0 THEN [self EXCEPT !._var = <<"0">>]
    ELSE _render_at_shift(
             [self EXCEPT !._sci_shift = _render_shift(self, Max(0, self._sci_shift))])

\* Variants of the prefetch trigger, against which the busy flag and the
\* precision-exhausted flag are tested: one that does not look at
\* _loading_more, one that does not look at _precision_exhausted.
_maybe_request_more_scientific_while_loading(self, direction) ==
    IF direction <= 0 THEN self
    ELSE IF self._precision_exhausted THEN self
    ELSE IF self._sci_shift = 0 /\ _initial_text_fits_visible_window(self) THEN self
    ELSE
        LET needed_index == self._sci_shift + SCI_FRACTION_WINDOW
            remaining == Len(self._sci_digits) - 1 - needed_index
        IN  IF remaining > PREFETCH_MARGIN THEN self
            ELSE [self EXCEPT !._loading_more = TRUE,
                              !._entry_after = Append(@, RequestMoreCallback)]

_maybe_request_more_scientific_when_exhausted(self, direction) ==
    IF direction <= 0 THEN self
    ELSE IF self._sci_shift = 0 /\ _initial_text_fits_visible_window(self) THEN self
    ELSE IF self._loading_more THEN self
    ELSE
        LET needed_index == self._sci_shift + SCI_FRACTION_WINDOW
            remaining == Len(self._sci_digits) - 1 - needed_index
        IN  IF remaining > PREFETCH_MARGIN THEN self
            ELSE [self EXCEPT !._loading_more = TRUE,
                              !._entry_after = Append(@, RequestMoreCallback)]

\* a variant of the prefetch trigger that measures the digits left from the
\* shift itself, not from the end of the fraction window
_maybe_request_more_scientific_from_shift(self, direction) ==
    IF direction <= 0 THEN self
    ELSE IF self._precision_exhausted THEN self
    ELSE IF self._sci_shift = 0 /\ _initial_text_fits_visible_window(self) THEN self
    ELSE IF self._loading_more THEN self
    ELSE
        LET remaining == Len(self._sci_digits) - 1 - self._sci_shift
        IN  IF remaining > PREFETCH_MARGIN THEN self
            ELSE [self EXCEPT !._loading_more = TRUE,
                              !._entry_after = Append(@, RequestMoreCallback)]

\* self._entry.after(0, self._request_more_callback) appends the callback to
\* _entry_after, the callbacks the display has scheduled; the event that made
\* the call moves them to the application's queue.
_maybe_request_more_scientific(self, direction) ==
    IF direction <= 0 THEN self
    ELSE IF self._precision_exhausted THEN self
    ELSE IF self._sci_shift = 0 /\ _initial_text_fits_visible_window(self) THEN self
    ELSE IF self._loading_more THEN self
    ELSE
        LET needed_index == self._sci_shift + SCI_FRACTION_WINDOW
            remaining == Len(self._sci_digits) - 1 - needed_index
        IN  IF remaining > PREFETCH_MARGIN THEN self
            ELSE [self EXCEPT !._loading_more = TRUE,
                              !._entry_after = Append(@, RequestMoreCallback)]

\* a variant of the probe that passes over the candidate shift
_probe_two_ahead(self, candidate, max_shift, current_text, current_plain_right_edge, current_plain_dot_pos) ==
    [self EXCEPT !._sci_shift = Min(candidate + 1, max_shift)]

\* a variant of the probe without the stop at the end of the plain-decimal window
_plain_window_never_at_end(current_plain_right_edge, candidate_plain_right_edge, current_plain_dot_pos, candidate_plain_dot_pos, body_width) ==
    FALSE

\* lines 275-284: the candidate window shows no digit beyond the current one
_plain_window_does_not_advance(current_plain_right_edge, candidate_plain_right_edge, current_plain_dot_pos, candidate_plain_dot_pos, body_width) ==
    /\ current_plain_right_edge # None
    /\ candidate_plain_right_edge # None
    /\ current_plain_dot_pos # None
    /\ candidate_plain_dot_pos # None
    /\ current_plain_dot_pos < body_width
    /\ candidate_plain_dot_pos < body_width
    /\ candidate_plain_right_edge <= current_plain_right_edge

RECURSIVE _advance_probe_loop(_, _, _, _, _, _)
\* lines 262-291: one candidate of the probe
RECURSIVE _advance_probe_candidate(_, _, _, _, _, _, _)
_advance_probe_candidate(self, candidate, max_shift, current_text, current_plain_right_edge, current_plain_dot_pos, plain_decimal) ==
    IF _build_shifted_scientific_text(self, candidate, FALSE).is_full_width
       \/ plain_decimal
       \/ _should_render_plain_tail(self, candidate)
       \/ _allow_underfull_progress(self, candidate)
    THEN
        IF plain_decimal
           /\ _plain_window_does_not_advance(
                  current_plain_right_edge, _plain_decimal_right_edge(self, candidate),
                  current_plain_dot_pos, _plain_decimal_dot_position(self, candidate),
                  Max(1, _visible_capacity_chars(self) - Len(self._sci_sign)))
        THEN self
        ELSE IF _preview_scientific_text(self, candidate) # current_text
        THEN [self EXCEPT !._sci_shift = candidate,
                          !._force_scientific_current_shift = FALSE]
        ELSE _advance_probe_loop(self, candidate + 1, max_shift, current_text,
                 current_plain_right_edge, current_plain_dot_pos)
    ELSE _advance_probe_loop(self, candidate + 1, max_shift, current_text,
             current_plain_right_edge, current_plain_dot_pos)

\* lines 261-291: the probe for the next shift whose rendering differs
_advance_probe_loop(self, candidate, max_shift, current_text, current_plain_right_edge, current_plain_dot_pos) ==
    IF ~(candidate > 0 /\ candidate <= max_shift) THEN self
    ELSE _advance_probe_candidate(self, candidate, max_shift, current_text,
             current_plain_right_edge, current_plain_dot_pos,
             _should_render_plain_decimal_window(self, candidate))

\* lines 255-291: the probe from the shift after the current one
_advance_probe(self, max_shift) ==
    _advance_probe_loop(self, Min(self._sci_shift + 1, max_shift), max_shift, self._var,
        _plain_decimal_right_edge(self, self._sci_shift),
        _plain_decimal_dot_position(self, self._sci_shift))

\* a variant of the scroll whose backward step goes back two shifts
_advance_scientific_back_two(self, direction) ==
    IF direction > 0 /\ self._sci_shift = 0 /\ _initial_text_fits_visible_window(self)
    THEN _render_scientific(self)
    ELSE IF direction > 0
            /\ _is_plain_decimal_dot_start_state(self)
            /\ _build_shifted_scientific_text(self, self._sci_shift, FALSE).text # self._var
    THEN _maybe_request_more_scientific(
             _render_scientific([self EXCEPT !._force_scientific_current_shift = TRUE]),
             direction)
    ELSE IF direction > 0 THEN
        _maybe_request_more_scientific(
            _render_scientific(
                _advance_probe(self, Max(0, Len(_virtual_digits_for_shifting(self)) - 1))),
            direction)
    ELSE IF direction < 0 THEN
        _maybe_request_more_scientific(
            _render_scientific([self EXCEPT !._sci_shift = Max(0, self._sci_shift - 2),
                                            !._force_scientific_current_shift = FALSE]),
            direction)
    ELSE _maybe_request_more_scientific(_render_scientific(self), direction)

_advance_scientific(self, direction) ==
    IF direction > 0 /\ self._sci_shift = 0 /\ _initial_text_fits_visible_window(self)
    THEN _render_scientific(self)
    ELSE IF direction > 0
            /\ _is_plain_decimal_dot_start_state(self)
            /\ _build_shifted_scientific_text(self, self._sci_shift, FALSE).text # self._var
    THEN _maybe_request_more_scientific(
             _render_scientific([self EXCEPT !._force_scientific_current_shift = TRUE]),
             direction)
    ELSE IF direction > 0 THEN
        _maybe_request_more_scientific(
            _render_scientific(
                _advance_probe(self, Max(0, Len(_virtual_digits_for_shifting(self)) - 1))),
            direction)
    ELSE IF direction < 0 THEN
        _maybe_request_more_scientific(
            _render_scientific([self EXCEPT !._sci_shift = Max(0, self._sci_shift - 1),
                                            !._force_scientific_current_shift = FALSE]),
            direction)
    ELSE _maybe_request_more_scientific(_render_scientific(self), direction)

\* the value of the two parsers when the text does not match
NoParse == [ok |-> FALSE, sign |-> <<>>, digits |-> <<>>, exponent |-> 0]

\* _SCI_RE: [+-]? digit (. digits)? [eE] [+-]? digits
_parse_scientific(text) ==
    LET sign == IF Len(text) > 0 /\ text[1] \in {"+", "-"} THEN <<text[1]>> ELSE <<>>
        body == SliceFrom(text, Len(sign))
        marks == {i \in 1..Len(body) : body[i] \in {"e", "E"}}
        epos == IF marks = {} THEN 0 ELSE CHOOSE i \in marks : \A j \in marks : j >= i
        mant == SubSeq(body, 1, epos - 1)
        expt == SubSeq(body, epos + 1, Len(body))
        mant_ok == \/ Len(mant) = 1 /\ IsDigits(mant)
                   \/ /\ Len(mant) >= 3
                      /\ mant[1] \in DigitSet
                      /\ mant[2] = "."
                      /\ IsDigits(SliceFrom(mant, 2))
    IN  IF epos = 0 \/ ~mant_ok \/ ParseInt(expt) = None THEN NoParse
        ELSE [ok |-> TRUE, sign |-> sign,
              digits |-> <<mant[1]>> \o SliceFrom(mant, 2),
              exponent |-> ParseInt(expt)]

\* next(i for i, c in enumerate(s) if c != "0"): 0-based, None when all are "0"
FirstNonZero(s) ==
    LET hits == {i \in 1..Len(s) : s[i] # "0"}
    IN  IF hits = {} THEN None ELSE (CHOOSE i \in hits : \A j \in hits : j >= i) - 1

\* a variant of the decimal parser that counts the zeros after the point from
\* one too few, so that 0.05 is read as 5 * 10^-1
_parse_decimal_exponent_off_by_one(text) ==
    LET sign == IF Len(text) > 0 /\ text[1] \in {"+", "-"} THEN <<text[1]>> ELSE <<>>
        body == SliceFrom(text, Len(sign))
        dot == Find(body, ".")
        matches == IF dot < 0 THEN Len(body) >= 1 /\ IsDigits(body)
                   ELSE IF dot = 0 THEN Len(body) >= 2 /\ IsDigits(SliceFrom(body, 1))
                   ELSE IsDigits(Slice(body, 0, dot)) /\ IsDigits(SliceFrom(body, dot + 1))
        int_part == IF dot < 0 THEN body
                    ELSE IF dot = 0 THEN <<"0">>
                    ELSE Slice(body, 0, dot)
        frac_part == IF dot < 0 THEN <<>> ELSE SliceFrom(body, dot + 1)
        first_non_zero_int == FirstNonZero(int_part)
        first_non_zero_frac == FirstNonZero(frac_part)
    IN  IF ~matches THEN NoParse
        ELSE IF first_non_zero_int = None /\ first_non_zero_frac = None
        THEN [ok |-> TRUE, sign |-> sign, digits |-> <<"0">>, exponent |-> 0]
        ELSE IF first_non_zero_int # None
        THEN [ok |-> TRUE, sign |-> sign,
              digits |-> SliceFrom(int_part, first_non_zero_int) \o frac_part,
              exponent |-> Len(int_part) - first_non_zero_int - 1]
        ELSE [ok |-> TRUE, sign |-> sign,
              digits |-> SliceFrom(frac_part, first_non_zero_frac),
              exponent |-> 0 - first_non_zero_frac]

\* _DEC_RE: [+-]? ( digits (. digits*)? | . digits )
_parse_decimal_as_scientific(text) ==
    LET sign == IF Len(text) > 0 /\ text[1] \in {"+", "-"} THEN <<text[1]>> ELSE <<>>
        body == SliceFrom(text, Len(sign))
        dot == Find(body, ".")
        matches == IF dot < 0 THEN Len(body) >= 1 /\ IsDigits(body)
                   ELSE IF dot = 0 THEN Len(body) >= 2 /\ IsDigits(SliceFrom(body, 1))
                   ELSE IsDigits(Slice(body, 0, dot)) /\ IsDigits(SliceFrom(body, dot + 1))
        int_part == IF dot < 0 THEN body
                    ELSE IF dot = 0 THEN <<"0">>
                    ELSE Slice(body, 0, dot)
        frac_part == IF dot < 0 THEN <<>> ELSE SliceFrom(body, dot + 1)
        first_non_zero_int == FirstNonZero(int_part)
        first_non_zero_frac == FirstNonZero(frac_part)
    IN  IF ~matches THEN NoParse
        ELSE IF first_non_zero_int = None /\ first_non_zero_frac = None
        THEN [ok |-> TRUE, sign |-> sign, digits |-> <<"0">>, exponent |-> 0]
        ELSE IF first_non_zero_int # None
        THEN [ok |-> TRUE, sign |-> sign,
              digits |-> SliceFrom(int_part, first_non_zero_int) \o frac_part,
              exponent |-> Len(int_part) - first_non_zero_int - 1]
        ELSE [ok |-> TRUE, sign |-> sign,
              digits |-> SliceFrom(frac_part, first_non_zero_frac),
              exponent |-> 0 - (first_non_zero_frac + 1)]

\* lines 70-99: the fields of a text that parses as a number
_set_parsed(self, text, preserve_view, parsed, source_kind) ==
    [self EXCEPT !._sci_mode = TRUE,
                 !._sci_sign = parsed.sign,
                 !._sci_digits = parsed.digits,
                 !._sci_exponent = parsed.exponent,
                 !._sci_source_kind = source_kind,
                 !._sci_shift = IF ~preserve_view THEN 0 ELSE @]

\* lines 78 and 92: the initial text, of a scientific text the formatted one
_set_initial_text(self, text) ==
    [self EXCEPT !._sci_initial_text =
                     IF self._sci_source_kind = "scientific"
                     THEN _format_initial_scientific(self)
                     ELSE text]

\* lines 70-105, the text parsed
_set_text_parsed(self, text, preserve_view, scientific, decimal) ==
    IF scientific.ok
    THEN _render_scientific(
             _set_initial_text(_set_parsed(self, text, preserve_view, scientific, "scientific"),
                               text))
    ELSE IF decimal.ok
    THEN _render_scientific(
             _set_initial_text(_set_parsed(self, text, preserve_view, decimal, "decimal"),
                               text))
    ELSE [self EXCEPT !._sci_mode = FALSE,
                      !._sci_source_kind = "None",
                      !._var = text]

\* lines 66-68: a new result clears the two flags
_set_text_flags(self, preserve_view) ==
    IF ~preserve_view
    THEN [self EXCEPT !._precision_exhausted = FALSE,
                      !._force_scientific_current_shift = FALSE]
    ELSE self

\* a variant of set_text that takes every text for a new result
set_text_from_start(self, text, preserve_view) ==
    _set_text_parsed(_set_text_flags(self, FALSE), text, FALSE,
                     _parse_scientific(text), _parse_decimal_as_scientific(text))

set_text(self, text, preserve_view) ==
    _set_text_parsed(_set_text_flags(self, preserve_view), text, preserve_view,
                     _parse_scientific(text), _parse_decimal_as_scientific(text))

(***************************************************************************)
(* The expressions of the model and their exact values.  A finite non-zero  *)
(* real is sign * (num / den) * 10^exp with 1 <= num / den < 10, so its     *)
(* decimal digits come out of a long division, as many as are asked for.    *)
(* A value with more leading digits than a machine integer holds names them *)
(* in `lead`: its digits are those of lead, then those of num / den, and    *)
(* exp is the power of ten of the first one.                                *)
(***************************************************************************)
ValueOf(expression) ==
    CASE expression = "5/7"            -> [kind |-> "mpf", sign |-> <<>>, num |-> 50, den |-> 7, exp |-> 0 - 1]
      [] expression = "-5/7"           -> [kind |-> "mpf", sign |-> <<"-">>, num |-> 50, den |-> 7, exp |-> 0 - 1]
      [] expression = "3/17539"        -> [kind |-> "mpf", sign |-> <<>>, num |-> 30000, den |-> 17539, exp |-> 0 - 4]
      [] expression = "5*10^10/7"      -> [kind |-> "mpf", sign |-> <<>>, num |-> 50, den |-> 7, exp |-> 9]
      [] expression = "5^9/2^18"       -> [kind |-> "mpf", sign |-> <<>>, num |-> 1953125, den |-> 262144, exp |-> 0]
      [] expression = "5^23/2^4"       -> [kind |-> "mpf", sign |-> <<>>, num |-> 1953125, den |-> 262144, exp |-> 14]
      [] expression = "5^7/2^16"       -> [kind |-> "mpf", sign |-> <<>>, num |-> 78125, den |-> 65536, exp |-> 0]
      [] expression = "10001*5^13/10"  -> [kind |-> "mpf", sign |-> <<>>, num |-> 10001, den |-> 8192, exp |-> 12]
      [] expression = "5^26/2"         -> [kind |-> "mpf", sign |-> <<>>, num |-> 1953125, den |-> 262144, exp |-> 17]
      [] expression = "5^27*10^12"     -> [kind |-> "mpf", sign |-> <<>>, num |-> 1953125, den |-> 262144, exp |-> 30]
      [] expression = "5^27"           -> [kind |-> "mpf", sign |-> <<>>, num |-> 1953125, den |-> 262144, exp |-> 18]
      [] expression = "123456789*10^9" -> [kind |-> "mpf", sign |-> <<>>, num |-> 123456789, den |-> 100000000, exp |-> 17]
      [] expression = "3*10^-30"       -> [kind |-> "mpf", sign |-> <<>>, num |-> 3, den |-> 1, exp |-> 0 - 30]
      [] expression = "1/8"            -> [kind |-> "mpf", sign |-> <<>>, num |-> 125, den |-> 100, exp |-> 0 - 1]
      [] expression = "12"             -> [kind |-> "mpf", sign |-> <<>>, num |-> 12, den |-> 10, exp |-> 1]
      [] expression = "3*10^30"        -> [kind |-> "mpf", sign |-> <<>>, num |-> 3, den |-> 1, exp |-> 30]
      \* 3000000000000000000000000000010
      [] expression = "3*10^30+10"     -> [kind |-> "mpf", sign |-> <<>>, lead |-> <<"3">> \o Zeros(28), num |-> 1, den |-> 1, exp |-> 30]
      \* sin of 30 radians, -0.98803162409286178998..., its first 70 digits
      \* (more than any working precision of the model asks for)
      [] expression = "sin(30)"        ->
             [kind |-> "mpf", sign |-> <<"-">>, exp |-> 0 - 1, num |-> 1, den |-> 3,
              lead |->
               <<"9", "8", "8", "0", "3", "1", "6", "2", "4", "0", "9", "2",
                 "8", "6", "1", "7", "8", "9", "9", "8", "7", "7", "4", "8",
                 "9", "0", "7", "2", "9", "4", "4", "5", "8", "1", "5", "0",
                 "4", "8", "6", "8", "0", "7", "9", "4", "8", "2", "2", "1",
                 "2", "1", "2", "7", "8", "8", "3", "6", "6", "4", "2", "9",
                 "1", "3", "3", "8", "7", "2", "8", "2", "0", "1">>]
      \* sin of 30 degrees, 1/2
      [] expression = "sin(radians(30))" -> [kind |-> "mpf", sign |-> <<>>, num |-> 5, den |-> 1, exp |-> 0 - 1]
      [] expression = "1/0"            -> [kind |-> "ZeroDivisionError"]
      \* an unclosed parenthesis: tokenize.generate_tokens (line 158) raises
      \* tokenize.TokenError, a subclass of Exception only
      [] expression = "(5/7"           -> [kind |-> "TokenError"]

\* the first n decimal digits of r / den, for r < 10 * den
RECURSIVE LongDivision(_, _, _)
LongDivision(r, den, n) ==
    IF n <= 0 THEN <<>>
    ELSE <<DigitChars[(r \div den) + 1]>> \o LongDivision((r % den) * 10, den, n - 1)

\* what is left of r / den after its first n digits (0: the value ends there)
RECURSIVE Remainder(_, _, _)
Remainder(r, den, n) ==
    IF n <= 0 \/ r = 0 THEN r ELSE Remainder((r % den) * 10, den, n - 1)

\* mp.floor(value) == value
IsInteger(v) == v.exp >= 0 /\ Remainder(v.num, v.den, v.exp + 1 - Len(v.lead)) = 0
\* mp.fmod(value, 10) != 0
NotMultipleOfTen(v) == ~(v.exp >= 1 /\ Remainder(v.num, v.den, v.exp - Len(v.lead)) = 0)

\* The digits an mpf computed at v.dps digits of working precision holds: the
\* exact ones up to v.dps, nothing after them.
KnownDigits(v, n) ==
    SubSeq(v.lead \o LongDivision(v.num, v.den, Min(n, v.dps) - Len(v.lead)), 1, Min(n, v.dps))
        \o Zeros(n - v.dps)

(***************************************************************************)
(* mpmath's nstr (libmpf.to_str): round half up at dps digits on the        *)
(* truncated digits, fixed or exponent layout, trailing zeros stripped      *)
(***************************************************************************)
RoundedDigits(v, dps) ==
    LET digits == KnownDigits(v, dps + 3)
        head == SubSeq(digits, 1, dps)
        not9 == {i \in 1..dps : head[i] # "9"}
        i == IF not9 = {} THEN 0 ELSE CHOOSE k \in not9 : \A j \in not9 : j <= k
    IN  IF digits[dps + 1] \in {"5", "6", "7", "8", "9"}
        THEN IF i > 0
             THEN [digits |-> SubSeq(head, 1, i - 1)
                              \o <<DigitChars[DigitVal(head[i]) + 2]>> \o Zeros(dps - i),
                   exponent |-> v.exp]
             ELSE [digits |-> <<"1">> \o Zeros(dps - 1), exponent |-> v.exp + 1]
        ELSE [digits |-> head, exponent |-> v.exp]

\* a digit is kept after the point when every zero has been stripped
nstr_keep_point_zero(stripped) ==
    IF stripped[Len(stripped)] = "." THEN stripped \o <<"0">> ELSE stripped

\* the sign, the digits and, in the exponent layout, the exponent
nstr_text(v, r, fixed, stripped) ==
    IF fixed \/ r.exponent = 0 THEN v.sign \o stripped
    ELSE IF r.exponent >= 0 THEN v.sign \o stripped \o <<"e", "+">> \o NatToText(r.exponent)
    ELSE v.sign \o stripped \o <<"e", "-">> \o NatToText(0 - r.exponent)

\* the digits with the point after `split` of them
nstr_dotted(digits, split) ==
    Slice(digits, 0, split) \o <<".">> \o SliceFrom(digits, split)

\* the rounded digits laid out: zeros added in the fixed layout, the point
\* put in, trailing zeros stripped
nstr_layout(v, dps, strip_zeros, r, fixed) ==
    nstr_text(v, r, fixed,
        IF ~strip_zeros
        THEN nstr_dotted(
                 IF ~fixed THEN r.digits
                 ELSE IF r.exponent < 0 THEN Zeros(0 - r.exponent) \o r.digits
                 ELSE r.digits \o Zeros((r.exponent + 1) - dps),
                 IF fixed /\ r.exponent >= 0 THEN r.exponent + 1 ELSE 1)
        ELSE nstr_keep_point_zero(RStripZeros(nstr_dotted(
                 IF ~fixed THEN r.digits
                 ELSE IF r.exponent < 0 THEN Zeros(0 - r.exponent) \o r.digits
                 ELSE r.digits \o Zeros((r.exponent + 1) - dps),
                 IF fixed /\ r.exponent >= 0 THEN r.exponent + 1 ELSE 1))))

\* the fixed layout is used for exponents between min_fixed and max_fixed
nstr_rounded(v, dps, fixed_allowed, strip_zeros, r) ==
    nstr_layout(v, dps, strip_zeros, r,
        fixed_allowed /\ Min(0 - (dps \div 3), 0 - 5) < r.exponent /\ r.exponent < dps)

nstr(v, dps, fixed_allowed, strip_zeros) ==
    nstr_rounded(v, dps, fixed_allowed, strip_zeros, RoundedDigits(v, dps))

(***************************************************************************)
(* ArbitraryPrecisionCalculatorEngine                                       *)
(***************************************************************************)
\* the arguments the engine is constructed with (main.py passes 120 and 120,
\* the regression checks 18 to 420 and 120)
initial_digits == 24
precision_step == 12
_initial_digits == Max(8, initial_digits)
_precision_step == Max(8, precision_step)

\* the value of _last_value before the first evaluation
NoValue == [kind |-> "None", expression |-> "None", dps |-> 0]

\* MPMathProvider: the angle mode, "rad" or "deg"
VARIABLE _angle_mode

\* MPMathProvider._trig, lines 37-44: the wrapper takes the angle mode when it
\* is built and converts its argument from degrees
_trig(fn, mode) == [fn |-> fn, mode |-> mode]

\* MPMathProvider.build_namespace, lines 69-87: the trigonometric wrappers
\* are built again at every call, with the angle mode of that moment
build_namespace == [sin |-> _trig("sin", _angle_mode)]

\* the expression as eval computes it in the namespace: sin(x) is
\* sin(radians(x)) when its wrapper was built in degrees
InNamespace(expression, namespace) ==
    IF expression = "sin(30)" /\ namespace.sin.mode = "deg" THEN "sin(radians(30))"
    ELSE expression

\* The outcome of evaluating `expression` with `digits` working digits: the
\* mpf computed with internal_dps digits (named by the expression as the
\* namespace of line 143 computes it), or the exception raised.
_evaluate_with_digits(expression, digits) ==
    LET internal_dps == Max(40, digits * 2 + 10)
        namespace == build_namespace
    IN  IF expression = "" THEN [kind |-> "ValueError", expression |-> expression, dps |-> 0]
        ELSE IF ValueOf(expression).kind = "mpf"
        THEN [kind |-> "mpf", expression |-> InNamespace(expression, namespace),
              dps |-> internal_dps]
        ELSE [kind |-> ValueOf(expression).kind, expression |-> expression, dps |-> 0]

Raised(outcome) == outcome.kind # "mpf"

HasPointZeroE(text) ==
    \E i \in 1..(Len(text) - 2) : text[i] = "." /\ text[i + 1] = "0" /\ text[i + 2] = "e"

\* lines 194-222, the mpf case (every value of the model is a finite mpf)
\* the exact value x held with dps digits of working precision
MpfAt(x, dps) ==
    [sign |-> x.sign, lead |-> IF "lead" \in DOMAIN x THEN x.lead ELSE <<>>,
     num |-> x.num, den |-> x.den, exp |-> x.exp, dps |-> dps]

\* lines 208-220: the exponent layout, its trailing zero kept when the value
\* is no multiple of ten
_format_scientific(v, digits, scientific) ==
    IF HasPointZeroE(scientific) /\ NotMultipleOfTen(v)
    THEN nstr(v, digits, FALSE, FALSE)
    ELSE scientific

\* lines 203-222
_format_mpf(v, digits) ==
    IF IsInteger(v) /\ v.exp < 18
    THEN v.sign \o v.lead \o LongDivision(v.num, v.den, v.exp + 1 - Len(v.lead))
    ELSE IF Abs(v.exp) >= SCI_NOTATION_EXP_LIMIT
    THEN _format_scientific(v, digits, nstr(v, digits, FALSE, TRUE))
    ELSE nstr(v, digits, TRUE, TRUE)

_format_result(value, digits) ==
    _format_mpf(MpfAt(ValueOf(value.expression), value.dps), digits)

\* Variants of the engine's methods, against which the engine's properties
\* are tested: an evaluate that keeps the working digits it finds, a
\* request_more_precision that adds its step before it looks at the stored
\* expression, and one that formats the value it already holds again instead
\* of evaluating the expression.
evaluate_keeping_digits(self, expression) ==
    LET self1 == [self EXCEPT !._last_expression = expression]
        outcome == _evaluate_with_digits(expression, self1._working_digits)
        self3 == [self1 EXCEPT !._last_value = outcome]
    IN  IF Raised(outcome)
        THEN [engine |-> self1, raised |-> outcome.kind, returned |-> NoneText]
        ELSE [engine |-> self3, raised |-> "None",
              returned |-> _format_result(self3._last_value, self3._working_digits)]

request_more_precision_unchecked(self) ==
    LET self1 == [self EXCEPT !._working_digits = @ + _precision_step]
        outcome == _evaluate_with_digits(self1._last_expression, self1._working_digits)
        self2 == [self1 EXCEPT !._last_value = outcome]
    IN  IF self._last_expression \in {"None", ""}
        THEN [engine |-> self1, raised |-> "ValueError", returned |-> NoneText]
        ELSE IF Raised(outcome)
        THEN [engine |-> self1, raised |-> outcome.kind, returned |-> NoneText]
        ELSE [engine |-> self2, raised |-> "None",
              returned |-> _format_result(self2._last_value, self2._working_digits)]

request_more_precision_reformatting(self) ==
    LET self1 == [self EXCEPT !._working_digits = @ + _precision_step]
    IN  IF self._last_expression \in {"None", ""}
        THEN [engine |-> self, raised |-> "ValueError", returned |-> NoneText]
        ELSE IF Raised(self1._last_value)
        THEN [engine |-> self1, raised |-> self1._last_value.kind, returned |-> NoneText]
        ELSE [engine |-> self1, raised |-> "None",
              returned |-> _format_result(self1._last_value, self1._working_digits)]

\* The engine object as a record of its fields, and what a call on it gives:
\* the engine after the call, the exception raised ("None": none) and the
\* text returned.
evaluate(self, expression) ==
    LET self1 == [self EXCEPT !._last_expression = expression]
        self2 == [self1 EXCEPT !._working_digits = _initial_digits]
        outcome == _evaluate_with_digits(expression, self2._working_digits)
        self3 == [self2 EXCEPT !._last_value = outcome]
    IN  IF Raised(outcome)
        THEN [engine |-> self2, raised |-> outcome.kind, returned |-> NoneText]
        ELSE [engine |-> self3, raised |-> "None",
              returned |-> _format_result(self3._last_value, self3._working_digits)]

request_more_precision(self) ==
    LET self1 == [self EXCEPT !._working_digits = @ + _precision_step]
        outcome == _evaluate_with_digits(self1._last_expression, self1._working_digits)
        self2 == [self1 EXCEPT !._last_value = outcome]
    IN  IF self._last_expression \in {"None", ""}
        THEN [engine |-> self, raised |-> "ValueError", returned |-> NoneText]
        ELSE IF Raised(outcome)
        THEN [engine |-> self1, raised |-> outcome.kind, returned |-> NoneText]
        ELSE [engine |-> self2, raised |-> "None",
              returned |-> _format_result(self2._last_value, self2._working_digits)]

(***************************************************************************)
(* State                                                                    *)
(***************************************************************************)
VARIABLES
    _last_expression,     \* engine: the expression of the last evaluate, "None" before it
    _working_digits,      \* engine: the working precision in digits
    _last_value,          \* engine: the value of the last evaluation
    result_display,       \* CalculatorApp.result_display, the ResultDisplay object
    _last_engine_result,  \* CalculatorApp: the engine text held for the display
    after_queue,          \* the callbacks posted with after(0, ...), oldest first
    threads,              \* the worker threads alive, a bag of records
    call,                 \* history: the engine call that completed last, the
                          \* expression of the last evaluate, the successful
                          \* expansions since it, the working digits before the call
    events,               \* history: the user's events while worker threads run
    history,              \* history: what was submitted, requested and displayed
                          \* while worker threads run
    clipboard,            \* the text on the system clipboard
    factorial_call        \* history: the text last given to _replace_factorial and
                          \* the text it returned

engine_vars == <<_last_expression, _working_digits, _last_value>>
vars == <<_last_expression, _working_digits, _last_value, result_display,
          _last_engine_result, after_queue, threads, call, events, history, clipboard, factorial_call, _angle_mode>>

(***************************************************************************)
(* Bounds of the model                                                      *)
(***************************************************************************)
\* precision expansions are requested up to this many steps above the initial digits
MaxExpansions == 2
MaxWorkingDigits == _initial_digits + MaxExpansions * _precision_step

\* the user's events (calculate, scroll forward, clear) while worker threads run
MaxEvents == 3

\* the expressions the user submits while worker threads run
ConcurrentExpressions == {"5/7", "5^9/2^18", "1/0"}

\* the expressions the user submits
Expressions ==
    {"5/7", "-5/7", "3/17539", "5*10^10/7", "5^9/2^18", "5^23/2^4", "5^7/2^16",
     "10001*5^13/10", "5^26/2", "5^27*10^12", "123456789*10^9",
     "5^27", "3*10^-30", "1/8", "12", "1/0", "(5/7"}

(***************************************************************************)
(* Texts the application shows                                              *)
(***************************************************************************)
ErrorPrefix == <<"E", "r", "r", "o", "r", ":", " ">>
\* str(exc), or the exception's class name when the message is empty
ErrorMessage(kind) ==
    CASE kind = "ZeroDivisionError" ->
             <<"Z", "e", "r", "o", "D", "i", "v", "i", "s", "i", "o", "n",
               "E", "r", "r", "o", "r">>
      [] kind = "ValueError" ->
             <<"E", "x", "p", "r", "e", "s", "i", "o", "n", " ", "v", "a", "c", "i", "a">>
      [] OTHER -> <<"E", "r", "r", "o", "r">>

\* the exceptions CalculatorApp._calculate catches (line 1025)
CaughtByCalculate ==
    {"ValueError", "ZeroDivisionError", "OverflowError", "ArithmeticError", "TypeError"}

(***************************************************************************)
(* Initial state: ResultDisplay.__init__, the engine's __init__,            *)
(* CalculatorApp.__init__                                                   *)
(***************************************************************************)
\* a worker thread: where it is in its code, and its local variables (the
\* expression and the digits it passes to _evaluate_with_digits, the digits it
\* read for +=, the text it got from the engine), and (history) whether it was
\* started since the request under way
NoThread == [pc |-> "done", expression |-> "None", digits |-> 0, text |-> NoneText,
             since |-> FALSE]
NoCall == [op |-> "None", expression |-> "None", raised |-> "None",
           returned |-> NoneText, expansions |-> 0, digits_before |-> 0]
\* The expansion request under way, from the scroll that posts it to its
\* finish_loading_more.  request: "displayed" when it was posted for the
\* result on display with no evaluation under way, "other" when posted
\* otherwise, "none" when no request is under way; submitted: a calculate or
\* clear event came since; shown: the result of a calculate submitted since
\* has been displayed; expanded: the text its worker found different from
\* the one held; latest: the expression of the most recent calculate event,
\* "None" before the first one and after a clear event; cleared: the most
\* recent calculate or clear event is a clear that came with no evaluation
\* under way
NoHistory == [request |-> "none", submitted |-> FALSE, shown |-> FALSE,
              expanded |-> NoneText, latest |-> "None", cleared |-> FALSE]

\* no text has been given to _replace_factorial
NoFactorialCall == [expr |-> <<>>, returned |-> NoneText]

Init ==
    /\ _last_expression = "None"
    /\ _working_digits = _initial_digits
    /\ _last_value = NoValue
    /\ result_display =
           [_var |-> <<"0">>,
            _entry_after |-> <<>>,
            _loading_more |-> FALSE,
            _precision_exhausted |-> FALSE,
            _force_scientific_current_shift |-> FALSE,
            _sci_mode |-> FALSE,
            _sci_sign |-> <<>>,
            _sci_digits |-> <<>>,
            _sci_exponent |-> 0,
            _sci_shift |-> 0,
            _sci_initial_text |-> <<"0">>,
            _sci_source_kind |-> "None"]
    /\ _last_engine_result = NoneText
    /\ after_queue = <<>>
    /\ threads = EmptyBag
    /\ call = NoCall
    /\ events = 0
    /\ history = NoHistory
    /\ clipboard = <<>>
    /\ factorial_call = NoFactorialCall
    /\ _angle_mode = "rad"

(***************************************************************************)
(* ResultDisplay: scroll events                                             *)
(***************************************************************************)
\* a variant of finish_loading_more, against which the release of the busy
\* flag is tested: one that leaves the flag as it finds it
finish_loading_more_keeping_flag(self) == self
finish_loading_more(self) == [self EXCEPT !._loading_more = FALSE]
mark_precision_exhausted(self) == [self EXCEPT !._precision_exhausted = TRUE]
reset_precision_exhausted(self) == [self EXCEPT !._precision_exhausted = FALSE]

\* The prefetch trigger of the plain (non-scientific) view.  The entry field
\* is VISIBLE_CHARS + 1 characters wide (line 42) and shows the text from its
\* start, so the index at its right edge is the smaller of that and the length.
_maybe_request_more(self, direction) ==
    IF direction <= 0 THEN self
    ELSE IF self._precision_exhausted THEN self
    ELSE IF self._loading_more THEN self
    ELSE
        LET right_visible == Min(Len(self._var), VISIBLE_CHARS + 1)
            text_length == Len(self._var)
            remaining == Max(0, text_length - right_visible)
        IN  IF remaining > PREFETCH_MARGIN THEN self
            ELSE [self EXCEPT !._loading_more = TRUE,
                              !._entry_after = Append(@, RequestMoreCallback)]

_scroll_unit(self, direction) ==
    IF self._sci_mode THEN _advance_scientific(self, direction)
    ELSE _maybe_request_more(self, direction)

\* a scroll that asks for more digits than the model's bound
BeyondBound(scrolled) ==
    /\ scrolled._entry_after # <<>>
    /\ _working_digits + _precision_step > MaxWorkingDigits

\* the display scrolled, and the callback it scheduled posted
Scrolled(scrolled) ==
    /\ ~BeyondBound(scrolled)
    /\ result_display' = [scrolled EXCEPT !._entry_after = <<>>]
    /\ after_queue' = after_queue \o scrolled._entry_after
    /\ UNCHANGED <<engine_vars, _last_engine_result, threads, call, clipboard, factorial_call, _angle_mode>>

\* a wheel or drag event: _scroll_unit(direction), SCROLL_STEPS = 1 unit
ScrollEvent(direction) == Scrolled(_scroll_unit(result_display, direction))

Scroll(direction) == ScrollEvent(direction) /\ UNCHANGED <<events, history>>

ScrollForward == Scroll(1)
ScrollBackward == Scroll(0 - 1)

(***************************************************************************)
(* The sequential schedule: every worker thread, and the callbacks it       *)
(* posts, run to completion before the next event.                          *)
(***************************************************************************)
\* the engine object of the current state
engine ==
    [_last_expression |-> _last_expression,
     _working_digits |-> _working_digits,
     _last_value |-> _last_value]

SetEngine(e) ==
    /\ _last_expression' = e._last_expression
    /\ _working_digits' = e._working_digits
    /\ _last_value' = e._last_value

\* _calculate (lines 1015-1034) with its worker and the callback it posts
SeqCalculated(expr, done) ==
    /\ SetEngine(done.engine)
    /\ call' = [op |-> "evaluate", expression |-> expr, raised |-> done.raised,
                returned |-> done.returned, expansions |-> 0,
                digits_before |-> _working_digits]
    /\ _last_engine_result' =
           IF done.raised = "None" THEN done.returned
           ELSE IF done.raised \in CaughtByCalculate THEN NoneText
           ELSE _last_engine_result
    /\ result_display' =
           IF done.raised \notin CaughtByCalculate \cup {"None"} THEN result_display
           ELSE set_text(result_display,
                    IF done.raised = "None" THEN done.returned
                    ELSE ErrorPrefix \o ErrorMessage(done.raised),
                    FALSE)
    /\ UNCHANGED <<after_queue, threads, events, history, clipboard, factorial_call, _angle_mode>>

SeqCalculate(expr) ==
    /\ expr # ""
    /\ after_queue = <<>>
    /\ SeqCalculated(expr, evaluate(engine, expr))

\* A variant of _request_more_precision, against which the suppression of
\* its failures is tested: one that shows the error as _calculate does.
SeqExpandedShowingError(done) ==
    /\ SetEngine(done.engine)
    /\ call' = [op |-> "request_more_precision", expression |-> call.expression,
                raised |-> done.raised, returned |-> done.returned,
                expansions |-> IF done.raised = "None" THEN call.expansions + 1
                               ELSE call.expansions,
                digits_before |-> _working_digits]
    /\ IF done.raised # "None"
       THEN /\ result_display' =
                   finish_loading_more(
                       set_text(result_display, ErrorPrefix \o ErrorMessage(done.raised), FALSE))
            /\ _last_engine_result' = NoneText
       ELSE IF _last_engine_result # NoneText /\ done.returned = _last_engine_result
       THEN /\ result_display' =
                   finish_loading_more(mark_precision_exhausted(result_display))
            /\ UNCHANGED _last_engine_result
       ELSE /\ _last_engine_result' = done.returned
            /\ result_display' =
                   finish_loading_more(set_text(result_display, done.returned, TRUE))
    /\ UNCHANGED <<threads, events, history, clipboard, factorial_call, _angle_mode>>

\* _request_more_precision (lines 1044-1067) with its worker and the
\* callbacks it posts: mark_precision_exhausted or set_text, then
\* finish_loading_more
SeqExpanded(done) ==
    /\ SetEngine(done.engine)
    /\ call' = [op |-> "request_more_precision", expression |-> call.expression,
                raised |-> done.raised, returned |-> done.returned,
                expansions |-> IF done.raised = "None" THEN call.expansions + 1
                               ELSE call.expansions,
                digits_before |-> _working_digits]
    /\ IF done.raised # "None"
       THEN /\ result_display' = finish_loading_more(result_display)
            /\ UNCHANGED _last_engine_result
       ELSE IF _last_engine_result # NoneText /\ done.returned = _last_engine_result
       THEN /\ result_display' =
                   finish_loading_more(mark_precision_exhausted(result_display))
            /\ UNCHANGED _last_engine_result
       ELSE /\ _last_engine_result' = done.returned
            /\ result_display' =
                   finish_loading_more(set_text(result_display, done.returned, TRUE))
    /\ UNCHANGED <<threads, events, history, clipboard, factorial_call, _angle_mode>>

SeqExpansion ==
    /\ after_queue # <<>>
    /\ Head(after_queue).fn = "_request_more_precision"
    /\ after_queue' = Tail(after_queue)
    /\ SeqExpanded(request_more_precision(engine))

\* _on_key("clear"), lines 954-958
ClearEvent ==
    /\ result_display' =
           reset_precision_exhausted(set_text(result_display, <<"0">>, FALSE))
    /\ _last_engine_result' = NoneText
    /\ UNCHANGED <<engine_vars, after_queue, threads, call, clipboard, factorial_call, _angle_mode>>

Clear == ClearEvent /\ UNCHANGED <<events, history>>

\* ResultDisplay.get_text, lines 107-108
get_text(self) == self._var

\* _copy_result, lines 1038-1042: the text of the display goes to the clipboard
CopyResult ==
    /\ clipboard' = get_text(result_display)
    /\ UNCHANGED <<engine_vars, result_display, _last_engine_result, after_queue,
                   threads, call, events, history, factorial_call, _angle_mode>>

\* the expressions submitted where the clipboard is observed
CopyExpressions == {"-5/7", "3*10^-30", "1/0"}

\* the application used by one user who also copies the result
NextCopy ==
    \/ \E expr \in CopyExpressions : SeqCalculate(expr)
    \/ ScrollForward
    \/ ScrollBackward
    \/ SeqExpansion
    \/ CopyResult

SpecCopy == Init /\ [][NextCopy]_vars

\* the engine's exponent layout: a value that is not a power-of-ten multiple
\* of its first digit but is a multiple of ten, the exact d * 10^k next to
\* it, a one-digit value far below 1 and a 22-digit integer
FormatExpressions == {"3*10^30+10", "3*10^30", "3*10^-30", "5^27*10^12"}
NextFormat == \/ \E expr \in FormatExpressions : SeqCalculate(expr) \/ ScrollForward \/ ScrollBackward \/ SeqExpansion
SpecFormat == Init /\ [][NextFormat]_vars

(***************************************************************************)
(* FormulaEvaluator._replace_factorial, lines 135-183.  The expression is   *)
(* a tuple of characters; i, j and start are the 0-based indexes of the     *)
(* code.                                                                    *)
(***************************************************************************)
AlphaSet == {"n", "x", "f", "a", "c", "t", "o", "r", "i", "l"}
FactorialOpen == <<"f", "a", "c", "t", "o", "r", "i", "a", "l", "(">>

\* lines 146-153: back from chars[j] to one before the parenthesis that opens the group
RECURSIVE _group_scan(_, _, _)
_group_scan(chars, j, depth) ==
    IF j >= 0 /\ depth > 0
    THEN _group_scan(chars, j - 1,
             IF chars[j + 1] = ")" THEN depth + 1
             ELSE IF chars[j + 1] = "(" THEN depth - 1
             ELSE depth)
    ELSE j

\* lines 160-165 and 171-174: back to the first character of the run
RECURSIVE _run_start(_, _, _)
_run_start(chars, start, kind) ==
    IF start > 0 /\ chars[start] \in kind THEN _run_start(chars, start - 1, kind)
    ELSE start

\* chars[start : i + 1] = list(f"factorial({operand})")
_rewrite_operand(chars, start, i) ==
    Slice(chars, 0, start) \o FactorialOpen \o Slice(chars, start, i) \o <<")">>
        \o SliceFrom(chars, i + 1)

\* lines 139-181: the loop, from the character at i down to the first
RECURSIVE _replace_factorial_loop(_, _)
_replace_factorial_loop(chars, i) ==
    LET j == i - 1
        group == _group_scan(chars, j - 1, 1) + 1
        number == _run_start(chars, j, DigitSet \cup {"."})
        name == _run_start(chars, j, AlphaSet \cup {"π"})
    IN  IF i < 0 THEN chars
        ELSE IF chars[i + 1] # "!" THEN _replace_factorial_loop(chars, i - 1)
        ELSE IF j >= 0 /\ chars[j + 1] = ")"
        THEN _replace_factorial_loop(_rewrite_operand(chars, group, i), group - 1)
        ELSE IF j >= 0 /\ chars[j + 1] \in DigitSet \cup {"."}
        THEN _replace_factorial_loop(_rewrite_operand(chars, number, i), number - 1)
        ELSE IF j >= 0 /\ chars[j + 1] \in AlphaSet \cup {"π"}
        THEN _replace_factorial_loop(_rewrite_operand(chars, name, i), name - 1)
        ELSE _replace_factorial_loop(chars, i - 1)

_replace_factorial(expr) == _replace_factorial_loop(expr, Len(expr) - 1)

\* the longest text given to _replace_factorial
MaxExprLen == 5
ExprChars == {"3", "n", "(", ")", "!"}
ExprTexts == UNION {[1..n -> ExprChars] : n \in 0..MaxExprLen}

\* the state before any event, with a text for _replace_factorial
InitFactorial ==
    /\ _last_expression = "None"
    /\ _working_digits = _initial_digits
    /\ _last_value = NoValue
    /\ result_display = [_var |-> <<"0">>, _entry_after |-> <<>>, _loading_more |-> FALSE,
                         _precision_exhausted |-> FALSE,
                         _force_scientific_current_shift |-> FALSE, _sci_mode |-> FALSE,
                         _sci_sign |-> <<>>, _sci_digits |-> <<>>, _sci_exponent |-> 0,
                         _sci_shift |-> 0, _sci_initial_text |-> <<"0">>,
                         _sci_source_kind |-> "None"]
    /\ _last_engine_result = NoneText
    /\ after_queue = <<>>
    /\ threads = EmptyBag
    /\ call = NoCall
    /\ events = 0
    /\ history = NoHistory
    /\ clipboard = <<>>
    /\ \E expr \in ExprTexts : factorial_call = [expr |-> expr, returned |-> NoneText]
    /\ _angle_mode = "rad"

\* _prepare_expression, line 126: expr = self._replace_factorial(expr)
ReplaceFactorial ==
    /\ factorial_call.returned = NoneText
    /\ factorial_call' = [factorial_call EXCEPT !.returned = _replace_factorial(factorial_call.expr)]
    /\ UNCHANGED <<engine_vars, result_display, _last_engine_result, after_queue,
                   threads, call, events, history, clipboard, _angle_mode>>

NextFactorial == ReplaceFactorial
SpecFactorial == InitFactorial /\ [][NextFactorial]_vars

NextSeq ==
    \/ \E expr \in Expressions : SeqCalculate(expr)
    \/ ScrollForward
    \/ ScrollBackward
    \/ SeqExpansion
    \/ Clear

SpecSeq == Init /\ [][NextSeq]_vars

(***************************************************************************)
(* The application with its worker threads.  _calculate and                 *)
(* _request_more_precision each start a thread that calls the engine and    *)
(* posts its callbacks with root.after(0, ...); the main thread runs the    *)
(* callbacks in the order they were posted, between the user's events.      *)
(***************************************************************************)
\* The worker threads alive are a bag of thread records: the threads have no
\* name in the program, and two of them can be at the same place with the
\* same local variables.
Threads == BagToSet(threads)
Starts(th) == threads' = threads (+) SetToBag({th})
Ends(th) == threads' = threads (-) SetToBag({th})
Becomes(th, next) == threads' = (threads (-) SetToBag({th})) (+) SetToBag({next})
Goto(th, pc) == Becomes(th, [th EXCEPT !.pc = pc])
Post(th, callback) == after_queue' = Append(after_queue, [callback EXCEPT !.since = th.since])

\* (history) an evaluation is under way: its worker runs, or the set_text it
\* posted has not run yet
EvaluateLocations ==
    {"evaluate", "evaluate_digits", "evaluate_call", "evaluate_value", "evaluate_format",
     "calculate_result", "calculate_post", "calculate_except", "calculate_except_post"}

EvaluationUnderWay ==
    \/ \E th \in Threads : th.pc \in EvaluateLocations
    \/ \E i \in 1..Len(after_queue) :
           after_queue[i].fn = "set_text" /\ ~after_queue[i].preserve_view

\* (history) the scroll posts a request: for the result on display when the
\* display shows the number held for it and no evaluation is under way
Requested(scrolled) ==
    IF scrolled._entry_after = <<>> THEN history
    ELSE [NoHistory EXCEPT !.latest = history.latest, !.cleared = history.cleared,
                           !.request =
             IF result_display._sci_mode /\ _last_engine_result # NoneText
                /\ ~EvaluationUnderWay
             THEN "displayed" ELSE "other"]

\* (history) a calculate or clear event while a request is under way
Submitted ==
    IF history.request = "none" THEN history
    ELSE [history EXCEPT !.submitted = TRUE]

\* _calculate, lines 1015-1034: starts the thread that runs _run
Calculate(expr) ==
    /\ expr # ""
    /\ events < MaxEvents
    /\ events' = events + 1
    /\ history' = [Submitted EXCEPT !.latest = expr, !.cleared = FALSE]
    /\ Starts([NoThread EXCEPT !.pc = "evaluate", !.expression = expr,
                                !.since = history.request = "displayed"])
    /\ UNCHANGED <<engine_vars, result_display, _last_engine_result, after_queue, call, clipboard, factorial_call, _angle_mode>>

\* evaluate, line 115: self._last_expression = expression
EvaluateStoreExpression(th) ==
    /\ th.pc = "evaluate"
    /\ _last_expression' = th.expression
    /\ Goto(th, "evaluate_digits")
    /\ UNCHANGED <<_working_digits, _last_value, result_display, _last_engine_result,
                   after_queue, call, events, history, clipboard, factorial_call, _angle_mode>>

\* evaluate, line 116: self._working_digits = self._initial_digits
EvaluateResetDigits(th) ==
    /\ th.pc = "evaluate_digits"
    /\ _working_digits' = _initial_digits
    /\ Goto(th, "evaluate_call")
    /\ UNCHANGED <<_last_expression, _last_value, result_display, _last_engine_result,
                   after_queue, call, events, history, clipboard, factorial_call, _angle_mode>>

\* evaluate, line 117: the arguments of _evaluate_with_digits are read
EvaluateCall(th) ==
    /\ th.pc = "evaluate_call"
    /\ Becomes(th, [th EXCEPT !.pc = "evaluate_value", !.digits = _working_digits])
    /\ UNCHANGED <<engine_vars, result_display, _last_engine_result, after_queue, call,
                   events, history, clipboard, factorial_call, _angle_mode>>

\* evaluate, line 117: _evaluate_with_digits returns and self._last_value is
\* assigned, or it raises and _run's except clause (line 1025) takes over
EvaluateStoreValue(th) ==
    LET outcome == _evaluate_with_digits(th.expression, th.digits)
    IN  /\ th.pc = "evaluate_value"
        /\ IF ~Raised(outcome)
           THEN _last_value' = outcome /\ Goto(th, "evaluate_format")
           ELSE IF outcome.kind \in CaughtByCalculate
           THEN /\ Becomes(th, [th EXCEPT !.pc = "calculate_except", !.text = ErrorPrefix \o ErrorMessage(outcome.kind)])
                /\ UNCHANGED _last_value
           ELSE Ends(th) /\ UNCHANGED _last_value
        /\ UNCHANGED <<_last_expression, _working_digits, result_display,
                       _last_engine_result, after_queue, call, events, history, clipboard, factorial_call, _angle_mode>>

\* evaluate, line 118: return self._format_result(self._last_value, self._working_digits)
EvaluateFormat(th) ==
    /\ th.pc = "evaluate_format"
    /\ Becomes(th, [th EXCEPT !.pc = "calculate_result", !.text = _format_result(_last_value, _working_digits)])
    /\ UNCHANGED <<engine_vars, result_display, _last_engine_result, after_queue, call,
                   events, history, clipboard, factorial_call, _angle_mode>>

\* _calculate._run, line 1023: self._last_engine_result = result
CalculateStoreResult(th) ==
    /\ th.pc = "calculate_result"
    /\ _last_engine_result' = th.text
    /\ Goto(th, "calculate_post")
    /\ UNCHANGED <<engine_vars, result_display, after_queue, call, events, history, clipboard, factorial_call, _angle_mode>>

\* _calculate._run, line 1024: self.root.after(0, set_text(result))
CalculatePost(th) ==
    /\ th.pc = "calculate_post"
    /\ Post(th, Callback("set_text", th.text, FALSE))
    /\ Ends(th)
    /\ UNCHANGED <<engine_vars, result_display, _last_engine_result, call, events, history,
                   clipboard, factorial_call, _angle_mode>>

\* _calculate._run, line 1029: self._last_engine_result = None
CalculateExceptStoreNone(th) ==
    /\ th.pc = "calculate_except"
    /\ _last_engine_result' = NoneText
    /\ Goto(th, "calculate_except_post")
    /\ UNCHANGED <<engine_vars, result_display, after_queue, call, events, history, clipboard, factorial_call, _angle_mode>>

\* _calculate._run, lines 1030-1031: self.root.after(0, set_text("Error: ..."))
CalculateExceptPost(th) ==
    /\ th.pc = "calculate_except_post"
    /\ Post(th, Callback("set_text", th.text, FALSE))
    /\ Ends(th)
    /\ UNCHANGED <<engine_vars, result_display, _last_engine_result, call, events, history,
                   clipboard, factorial_call, _angle_mode>>

\* _request_more_precision, lines 1044-1067, the callback of the prefetch
\* trigger: starts the thread that runs _run (the engine has the method)
RequestMorePrecision ==
    /\ after_queue # <<>>
    /\ Head(after_queue).fn = "_request_more_precision"
    /\ after_queue' = Tail(after_queue)
    /\ Starts([NoThread EXCEPT !.pc = "request_more"])
    /\ UNCHANGED <<engine_vars, result_display, _last_engine_result, call, events, history,
                   clipboard, factorial_call, _angle_mode>>

\* request_more_precision, lines 124-125: if not self._last_expression: raise
\* ValueError; _run passes over it (except Exception: pass) and goes to finally
RequestMoreCheck(th) ==
    /\ th.pc = "request_more"
    /\ IF _last_expression \in {"None", ""}
       THEN Goto(th, "request_more_finally")
       ELSE Goto(th, "request_more_read")
    /\ UNCHANGED <<engine_vars, result_display, _last_engine_result, after_queue, call,
                   events, history, clipboard, factorial_call, _angle_mode>>

\* request_more_precision, line 127: self._working_digits += self._precision_step
\* reads the attribute ...
RequestMoreReadDigits(th) ==
    /\ th.pc = "request_more_read"
    /\ Becomes(th, [th EXCEPT !.pc = "request_more_write", !.digits = _working_digits])
    /\ UNCHANGED <<engine_vars, result_display, _last_engine_result, after_queue, call,
                   events, history, clipboard, factorial_call, _angle_mode>>

\* ... and writes the sum
RequestMoreWriteDigits(th) ==
    /\ th.pc = "request_more_write"
    /\ _working_digits' = th.digits + _precision_step
    /\ Goto(th, "request_more_call")
    /\ UNCHANGED <<_last_expression, _last_value, result_display, _last_engine_result,
                   after_queue, call, events, history, clipboard, factorial_call, _angle_mode>>

\* request_more_precision, lines 128-131: the arguments of
\* _evaluate_with_digits are read
RequestMoreCall(th) ==
    /\ th.pc = "request_more_call"
    /\ Becomes(th, [th EXCEPT !.pc = "request_more_value", !.expression = _last_expression,
                                 !.digits = _working_digits])
    /\ UNCHANGED <<engine_vars, result_display, _last_engine_result, after_queue, call,
                   events, history, clipboard, factorial_call, _angle_mode>>

\* request_more_precision, line 128: _evaluate_with_digits returns and
\* self._last_value is assigned, or it raises and _run goes to finally
RequestMoreStoreValue(th) ==
    LET outcome == _evaluate_with_digits(th.expression, th.digits)
    IN  /\ th.pc = "request_more_value"
        /\ IF ~Raised(outcome)
           THEN _last_value' = outcome /\ Goto(th, "request_more_format")
           ELSE UNCHANGED _last_value /\ Goto(th, "request_more_finally")
        /\ UNCHANGED <<_last_expression, _working_digits, result_display,
                       _last_engine_result, after_queue, call, events, history, clipboard, factorial_call, _angle_mode>>

\* request_more_precision, line 132: return self._format_result(...)
RequestMoreFormat(th) ==
    /\ th.pc = "request_more_format"
    /\ Becomes(th, [th EXCEPT !.pc = "request_more_compare", !.text = _format_result(_last_value, _working_digits)])
    /\ UNCHANGED <<engine_vars, result_display, _last_engine_result, after_queue, call,
                   events, history, clipboard, factorial_call, _angle_mode>>

\* _request_more_precision._run, line 1052: the comparison with the text held
RequestMoreCompare(th) ==
    /\ th.pc = "request_more_compare"
    /\ IF _last_engine_result # NoneText /\ th.text = _last_engine_result
       THEN Goto(th, "request_more_mark") /\ UNCHANGED history
       ELSE /\ Goto(th, "request_more_result")
            /\ history' = [history EXCEPT !.expanded = th.text]
    /\ UNCHANGED <<engine_vars, result_display, _last_engine_result, after_queue, call,
                   events, clipboard, factorial_call, _angle_mode>>

\* line 1053: self.root.after(0, self.result_display.mark_precision_exhausted)
RequestMorePostMark(th) ==
    /\ th.pc = "request_more_mark"
    /\ Post(th, Callback("mark_precision_exhausted", NoneText, FALSE))
    /\ Goto(th, "request_more_finally")
    /\ UNCHANGED <<engine_vars, result_display, _last_engine_result, call, events, history,
                   clipboard, factorial_call, _angle_mode>>

\* line 1056: self._last_engine_result = updated
RequestMoreStoreResult(th) ==
    /\ th.pc = "request_more_result"
    /\ _last_engine_result' = th.text
    /\ Goto(th, "request_more_post")
    /\ UNCHANGED <<engine_vars, result_display, after_queue, call, events, history, clipboard, factorial_call, _angle_mode>>

\* A variant of the worker, against which the application of its result is
\* tested: one that posts no set_text for the text it found.
RequestMorePostNothing(th) ==
    /\ th.pc = "request_more_post"
    /\ Goto(th, "request_more_finally")
    /\ UNCHANGED <<engine_vars, result_display, _last_engine_result, after_queue, call,
                   events, history, clipboard, factorial_call, _angle_mode>>

\* lines 1057-1060: self.root.after(0, set_text(updated, preserve_view=True))
RequestMorePostSetText(th) ==
    /\ th.pc = "request_more_post"
    /\ Post(th, Callback("set_text", th.text, TRUE))
    /\ Goto(th, "request_more_finally")
    /\ UNCHANGED <<engine_vars, result_display, _last_engine_result, call, events, history,
                   clipboard, factorial_call, _angle_mode>>

\* lines 1063-1064: finally: self.root.after(0, finish_loading_more)
RequestMoreFinally(th) ==
    /\ th.pc = "request_more_finally"
    /\ Post(th, Callback("finish_loading_more", NoneText, FALSE))
    /\ Ends(th)
    /\ UNCHANGED <<engine_vars, result_display, _last_engine_result, call, events, history,
                   clipboard, factorial_call, _angle_mode>>

\* the main thread runs the callback at the head of the queue
SetText ==
    /\ after_queue # <<>>
    /\ Head(after_queue).fn = "set_text"
    /\ after_queue' = Tail(after_queue)
    /\ result_display' =
           set_text(result_display, Head(after_queue).text, Head(after_queue).preserve_view)
    /\ history' = IF ~Head(after_queue).preserve_view /\ Head(after_queue).since
                  THEN [history EXCEPT !.shown = TRUE]
                  ELSE history
    /\ UNCHANGED <<engine_vars, _last_engine_result, threads, call, events, clipboard, factorial_call, _angle_mode>>

MarkPrecisionExhausted ==
    /\ after_queue # <<>>
    /\ Head(after_queue).fn = "mark_precision_exhausted"
    /\ after_queue' = Tail(after_queue)
    /\ result_display' = mark_precision_exhausted(result_display)
    /\ UNCHANGED <<engine_vars, _last_engine_result, threads, call, events, history, clipboard, factorial_call, _angle_mode>>

FinishLoadingMore ==
    /\ after_queue # <<>>
    /\ Head(after_queue).fn = "finish_loading_more"
    /\ after_queue' = Tail(after_queue)
    /\ result_display' = finish_loading_more(result_display)
    /\ history' = [NoHistory EXCEPT !.latest = history.latest, !.cleared = history.cleared]
    /\ UNCHANGED <<engine_vars, _last_engine_result, threads, call, events, clipboard, factorial_call, _angle_mode>>

\* the user scrolls forward, or clears, while worker threads run
UserScrollForward ==
    /\ events < MaxEvents
    /\ events' = events + 1
    /\ ScrollEvent(1)
    /\ history' = Requested(_scroll_unit(result_display, 1))

UserClear ==
    /\ events < MaxEvents
    /\ events' = events + 1
    /\ history' = [Submitted EXCEPT !.latest = "None", !.cleared = ~EvaluationUnderWay]
    /\ ClearEvent

Next ==
    \/ \E expr \in ConcurrentExpressions : Calculate(expr)
    \/ UserScrollForward
    \/ UserClear
    \/ RequestMorePrecision
    \/ SetText
    \/ MarkPrecisionExhausted
    \/ FinishLoadingMore
    \/ \E th \in Threads : EvaluateStoreExpression(th)
    \/ \E th \in Threads : EvaluateResetDigits(th)
    \/ \E th \in Threads : EvaluateCall(th)
    \/ \E th \in Threads : EvaluateStoreValue(th)
    \/ \E th \in Threads : EvaluateFormat(th)
    \/ \E th \in Threads : CalculateStoreResult(th)
    \/ \E th \in Threads : CalculatePost(th)
    \/ \E th \in Threads : CalculateExceptStoreNone(th)
    \/ \E th \in Threads : CalculateExceptPost(th)
    \/ \E th \in Threads : RequestMoreCheck(th)
    \/ \E th \in Threads : RequestMoreReadDigits(th)
    \/ \E th \in Threads : RequestMoreWriteDigits(th)
    \/ \E th \in Threads : RequestMoreCall(th)
    \/ \E th \in Threads : RequestMoreStoreValue(th)
    \/ \E th \in Threads : RequestMoreFormat(th)
    \/ \E th \in Threads : RequestMoreCompare(th)
    \/ \E th \in Threads : RequestMorePostMark(th)
    \/ \E th \in Threads : RequestMoreStoreResult(th)
    \/ \E th \in Threads : RequestMorePostSetText(th)
    \/ \E th \in Threads : RequestMoreFinally(th)

Spec == Init /\ [][Next]_vars

(***************************************************************************)
(* Properties of the scrolling display                                      *)
(***************************************************************************)
\* the display after n scroll events in one direction, nothing else in between
RECURSIVE ScrollTimes(_, _, _)
ScrollTimes(self, direction, n) ==
    IF n = 0 THEN self
    ELSE LET next == _advance_scientific(self, direction)
         IN  IF next._sci_digits = <<>> THEN next
             ELSE ScrollTimes(next, direction, n - 1)

\* the text _render_scientific computes from the canonical form and the shift
RenderedAtShift(self) ==
    _render_scientific([self EXCEPT !._force_scientific_current_shift = FALSE])._var

\* forward scrolls examined after the first one that leaves the text unchanged
MaxLater == 3

\* C1: a forward scroll of a displayed number that moves the shift shows a
\* text different from the one shown before it; a forward scroll that leaves
\* the text unchanged also leaves the shift unchanged, and so does every
\* forward scroll after it: the text and the shift stay what they were.
ForwardShiftTerminalIdempotent ==
    result_display._sci_mode =>
        LET first == _advance_scientific(result_display, 1)
        IN  /\ first._sci_shift # result_display._sci_shift =>
                    first._var # result_display._var
            /\ first._var = result_display._var =>
                    /\ first._sci_shift = result_display._sci_shift
                    /\ \A k \in 1..MaxLater :
                           /\ ScrollTimes(first, 1, k)._var = first._var
                           /\ ScrollTimes(first, 1, k)._sci_shift = first._sci_shift

\* a displayed number in the terminal state, reached by scrolling forward
ForwardShiftTerminalReached ==
    /\ result_display._sci_mode
    /\ result_display._sci_shift > 0
    /\ _advance_scientific(result_display, 1)._var = result_display._var

\* C2: the text shown for a number is the one rendered from its canonical
\* form and the current shift, whatever scroll history led to the state.
RenderingIsFunctionOfShift ==
    result_display._sci_mode => result_display._var = RenderedAtShift(result_display)

\* the scrolls of the symmetry walk
MaxWalk == 20

\* `walked` is `start` after n forward scrolls: n backward scrolls from it,
\* and as many from every longer forward walk, show the text of `start`
RECURSIVE WalksReturn(_, _, _)
WalksReturn(start, walked, n) ==
    /\ ScrollTimes(walked, 0 - 1, n)._var = start._var
    /\ ScrollTimes(walked, 0 - 1, n)._sci_shift = 0
    /\ n < MaxWalk => WalksReturn(start, ScrollTimes(walked, 1, 1), n + 1)

\* C3: from a displayed number at shift 0, N forward scrolls followed by N
\* backward scrolls show the text that was shown before them, at shift 0.
ScrollSymmetry ==
    (result_display._sci_mode /\ result_display._sci_shift = 0) =>
        WalksReturn(result_display, result_display, 0)

\* a displayed number at shift 0 whose forward scrolls all move the shift
ScrollSymmetryWalked ==
    /\ result_display._sci_mode
    /\ result_display._sci_shift = 0
    /\ ScrollTimes(result_display, 1, 3)._sci_shift = 3
    /\ ScrollTimes(result_display, 1, 3)._var # result_display._var

\* C4, as claimed: the rendered text of a number has at most VISIBLE_CHARS
\* characters, the sign and the ellipsis marker counted.
WidthBoundCountingEllipsis ==
    result_display._sci_mode => Len(result_display._var) <= VISIBLE_CHARS

\* C4: the rendered text of a number has at most VISIBLE_CHARS characters
\* besides the ellipsis marker, the sign counted, and one more with the marker.
WidthBoundBesidesEllipsis ==
    result_display._sci_mode =>
        /\ Len(StripEllipsis(result_display._var)) <= VISIBLE_CHARS
        /\ Len(result_display._var) <= VISIBLE_CHARS + 1

\* a negative number shown in a shifted layout that fills the whole width
WidthBoundFullWidthShown ==
    /\ result_display._sci_mode
    /\ result_display._sci_sign = <<"-">>
    /\ result_display._var[2] = ELLIPSIS
    /\ Len(result_display._var) = VISIBLE_CHARS + 1

\* the canonical form (sign, digits, exponent) set_text reads from a text
CanonicalForm(text) ==
    LET scientific == _parse_scientific(text)
        decimal == _parse_decimal_as_scientific(text)
        parsed == IF scientific.ok THEN scientific ELSE decimal
    IN  [sign |-> parsed.sign, digits |-> parsed.digits, exponent |-> parsed.exponent]

ShownCanonicalForm(self) ==
    [sign |-> self._sci_sign, digits |-> self._sci_digits, exponent |-> self._sci_exponent]

\* the steps that display a new numeric result, set_text(result), and those
\* that display a precision refinement, set_text(updated, preserve_view=True)
DisplaysNewResult ==
    /\ call'.op = "evaluate"
    /\ call'.raised = "None"
    /\ \E expr \in Expressions : call'.expression = expr /\ SeqCalculate(expr)

DisplaysRefinement ==
    /\ SeqExpansion
    /\ call'.raised = "None"
    /\ _last_engine_result' # _last_engine_result

\* C10: displaying a new numeric result sets the shift to 0 and the
\* precision-exhausted flag to false; displaying a precision refinement
\* replaces the canonical form and leaves the shift and the flag unchanged.
ViewStateResetRule ==
    [][/\ DisplaysNewResult =>
             /\ result_display'._sci_shift = 0
             /\ ~result_display'._precision_exhausted
             /\ ShownCanonicalForm(result_display') = CanonicalForm(_last_engine_result')
       /\ DisplaysRefinement =>
             /\ ShownCanonicalForm(result_display') = CanonicalForm(_last_engine_result')
             /\ result_display'._sci_shift = result_display._sci_shift
             /\ result_display'._precision_exhausted = result_display._precision_exhausted
      ]_vars

\* a refinement shown in a scrolled view: more digits at the same shift
ViewStateRefinedWhileScrolled ==
    /\ call.op = "request_more_precision"
    /\ call.raised = "None"
    /\ result_display._sci_mode
    /\ result_display._sci_shift > 2
    /\ Len(result_display._sci_digits) > _initial_digits
    /\ ~result_display._loading_more

(***************************************************************************)
(* Properties of the engine                                                 *)
(***************************************************************************)
\* C7: request_more_precision on an engine that has evaluated nothing raises
\* an error and leaves the stored expression, the working digits and the
\* last value unchanged.
RequestMoreInIdleFails ==
    [][(SeqExpansion /\ _last_expression = "None") =>
           /\ call'.raised = "ValueError"
           /\ UNCHANGED <<_last_expression, _working_digits, _last_value>>
      ]_vars

\* request_more_precision has been called on the idle engine
RequestMoreInIdleCalled ==
    /\ call.op = "request_more_precision"
    /\ call.raised = "ValueError"
    /\ _last_expression = "None"

\* C8: a successful evaluate(expr) leaves the engine with expr stored, a value
\* held and max(8, initial_digits) working digits, whatever calls preceded it.
EvaluateResetsPrecision ==
    [][\A expr \in Expressions :
           (call'.expression = expr /\ call'.raised = "None" /\ SeqCalculate(expr)) =>
               /\ _last_expression' = expr
               /\ _working_digits' = Max(8, initial_digits)
               /\ _last_value'.kind = "mpf"
      ]_vars

\* an evaluate has succeeded on an engine that expansions had raised above
\* its initial digits
EvaluateAfterExpansions ==
    /\ call.op = "evaluate"
    /\ call.raised = "None"
    /\ call.digits_before > Max(8, initial_digits)
    /\ _working_digits = Max(8, initial_digits)

\* C9: after evaluate(e) and k successful request_more_precision calls the
\* working digits are the initial ones plus k steps, e is still stored, the
\* value held is the one computed from e with max(40, 2 * digits + 10)
\* internal digits, and the text returned is that of a fresh evaluation of e
\* with that many working digits.
RequestMoreReevaluatesFromScratch ==
    (call.op = "request_more_precision" /\ call.raised = "None") =>
        /\ _working_digits = Max(8, initial_digits) + call.expansions * Max(8, precision_step)
        /\ _last_expression = call.expression
        /\ _last_value = [kind |-> "mpf", expression |-> call.expression,
                          dps |-> Max(40, 2 * _working_digits + 10)]
        /\ call.returned =
               _format_result(_evaluate_with_digits(call.expression, _working_digits),
                              _working_digits)

\* the second expansion in a row has returned a text
RequestMoreTwiceInARow ==
    /\ call.op = "request_more_precision"
    /\ call.raised = "None"
    /\ call.expansions = 2
    /\ _working_digits = call.digits_before + Max(8, precision_step)
    /\ Len(call.returned) > Max(8, initial_digits)

(***************************************************************************)
(* Properties of the precision expansions                                   *)
(***************************************************************************)
\* where a thread started by _request_more_precision can be
RequestMoreLocations ==
    {"request_more", "request_more_read", "request_more_write", "request_more_call",
     "request_more_value", "request_more_format", "request_more_compare",
     "request_more_mark", "request_more_result", "request_more_post",
     "request_more_finally"}

RequestMoreThreads == {th \in Threads : th.pc \in RequestMoreLocations}
RequestMoreThreadCount == BagCardinality([th \in RequestMoreThreads |-> threads[th]])

Queued(fn) == {i \in 1..Len(after_queue) : after_queue[i].fn = fn}

\* the expansion requests between the prefetch trigger and finish_loading_more
ExpansionsInFlight ==
    Cardinality(Queued("_request_more_precision"))
        + RequestMoreThreadCount
        + Cardinality(Queued("finish_loading_more"))

\* a worker has found its result identical to the one held, and the mark it
\* posts has not run yet
ExhaustionFound ==
    \/ \E th \in Threads : th.pc = "request_more_mark"
    \/ Queued("mark_precision_exhausted") # {}

\* a forward scroll of this display posts no expansion request
NoRequestOnForwardScroll(self) == _scroll_unit(self, 1)._entry_after = <<>>

\* C5: when an expansion returns the text already held, the mark that is run
\* sets the precision-exhausted flag; from the moment the worker finds the
\* texts identical, and while the flag is set, a forward scroll posts no
\* expansion request; and the flag is cleared only when a new result is
\* displayed (set_text with preserve_view=False) or the display is cleared.
PrecisionExhaustionTerminates ==
    [][/\ MarkPrecisionExhausted => result_display'._precision_exhausted
       /\ (result_display'._precision_exhausted \/ ExhaustionFound') =>
              NoRequestOnForwardScroll(result_display')
       /\ (result_display._precision_exhausted /\ ~result_display'._precision_exhausted) =>
              (UserClear \/ (SetText /\ ~Head(after_queue).preserve_view))
      ]_vars

\* a number is displayed with the flag set, no request is outstanding, and
\* without the flag a forward scroll would post one
PrecisionExhaustedStopsRequests ==
    /\ result_display._sci_mode
    /\ result_display._precision_exhausted
    /\ ~result_display._loading_more
    /\ ~NoRequestOnForwardScroll(reset_precision_exhausted(result_display))

\* C6: at most one expansion request is in flight, counting the callback
\* posted by the prefetch trigger, the worker thread and its
\* finish_loading_more; the busy flag is set exactly while one is; so no two
\* request_more_precision workers overlap.
AtMostOneExpansionInFlight ==
    /\ ExpansionsInFlight <= 1
    /\ result_display._loading_more <=> ExpansionsInFlight = 1
    /\ RequestMoreThreadCount <= 1

\* a worker is running, the user has scrolled forward again since the trigger
\* that started it (the view is past its first shifted text), and without
\* the busy flag a forward scroll would post a request
ScrolledWhileExpansionInFlight ==
    /\ RequestMoreThreads # {}
    /\ result_display._sci_mode
    /\ result_display._sci_shift = 1
    /\ result_display._var # RenderedAtShift(result_display)
    /\ ~NoRequestOnForwardScroll(finish_loading_more(result_display))

(***************************************************************************)
(* Properties of the expansions and the evaluations that run beside them    *)
(***************************************************************************)
\* the request under way was posted for the result on display, and no
\* calculate or clear event came since
MostRecentRequest == history.request = "displayed" /\ ~history.submitted

\* the worker has found a text different from the one held and the set_text
\* it posts for it has not run yet
ExpansionPending ==
    \/ \E th \in Threads : th.pc \in {"request_more_result", "request_more_post"}
    \/ \E i \in 1..Len(after_queue) :
           after_queue[i].fn = "set_text" /\ after_queue[i].preserve_view

\* the display shows the number `text` is
Shows(text) ==
    /\ result_display._sci_mode
    /\ ShownCanonicalForm(result_display) = CanonicalForm(text)

\* C11: when the worker of an expansion request finds a text different from
\* the one held, and no calculate or clear event came since the request was
\* posted for the result on display, then that text is put on the display:
\* its set_text is on its way or has run, it has run when the request's
\* finish_loading_more runs, and it shows the number of that text at the
\* shift the display was at.
CompletedExpansionApplied ==
    [][/\ (MostRecentRequest' /\ history'.expanded # NoneText) =>
              (ExpansionPending' \/ Shows(history.expanded)')
       /\ (SetText /\ Head(after_queue).preserve_view /\ MostRecentRequest) =>
              /\ Head(after_queue).text = history.expanded
              /\ Shows(history.expanded)'
              /\ result_display'._sci_shift = result_display._sci_shift
       /\ (FinishLoadingMore /\ MostRecentRequest /\ history.expanded # NoneText) =>
              Shows(history.expanded)
      ]_vars

\* the expansion of the most recent request has been put on a display the
\* user has scrolled, and shows more digits at the shift it was at
CompletedExpansionShown ==
    /\ MostRecentRequest
    /\ history.expanded # NoneText
    /\ ~ExpansionPending
    /\ Shows(history.expanded)
    /\ result_display._sci_shift > 0
    /\ Len(result_display._sci_digits) > _initial_digits

\* C12: once the result of a calculate event submitted while an expansion
\* request for the result on display was under way has been displayed, the
\* worker of that request writes no text to _last_engine_result and no
\* set_text of its text runs on the display.
StaleExpansionNeverWritten ==
    [][(history.request = "displayed" /\ history.shown) =>
           /\ ~(\E th \in Threads : RequestMoreStoreResult(th))
           /\ ~(SetText /\ Head(after_queue).preserve_view)
      ]_vars

(***************************************************************************)
(* Properties of the error handling                                         *)
(***************************************************************************)
\* the first characters of the text are "Error: " and a message follows
IsErrorText(text) ==
    /\ Len(text) > Len(ErrorPrefix)
    /\ SubSeq(text, 1, Len(ErrorPrefix)) = ErrorPrefix

\* C13: when request_more_precision raises in the worker of an expansion,
\* the text shown, the canonical form, the shift and _last_engine_result are
\* what they were before the request ran: no error text takes their place.
ExpansionFailureSuppressed ==
    [][(SeqExpansion /\ call'.raised # "None") =>
           /\ result_display'._var = result_display._var
           /\ result_display'._sci_mode = result_display._sci_mode
           /\ ShownCanonicalForm(result_display') = ShownCanonicalForm(result_display)
           /\ result_display'._sci_shift = result_display._sci_shift
           /\ _last_engine_result' = _last_engine_result
           /\ IsErrorText(result_display'._var) => IsErrorText(result_display._var)
      ]_vars

\* an expansion has failed while a scrolled number was on display
ExpansionFailedOnScrolledNumber ==
    /\ call.op = "request_more_precision"
    /\ call.raised \notin {"None", "ValueError"}
    /\ result_display._sci_mode
    /\ result_display._sci_shift > 0
    /\ _last_engine_result # NoneText
    /\ ~result_display._loading_more

\* C14: every evaluation of a submitted expression that raises, whatever the
\* kind of the error, leaves the display showing "Error: " and a message.
EvaluationFailureSurfaced ==
    [][\A expr \in Expressions :
           (call'.expression = expr /\ call'.raised # "None" /\ SeqCalculate(expr)) =>
               /\ ~result_display'._sci_mode
               /\ IsErrorText(result_display'._var)
      ]_vars

(***************************************************************************)
(* Properties of the layouts                                                *)
(***************************************************************************)
\* the text handed to set_text for the number on display: the one the
\* application holds, "0" after a clear
HeldText == IF _last_engine_result = NoneText THEN <<"0">> ELSE _last_engine_result

\* the initial rendering of the number on display: of a decimal text its
\* first VISIBLE_CHARS characters, of a scientific text the mantissa cut to
\* the width the exponent leaves
InitialRendering(self) ==
    IF self._sci_source_kind = "decimal" THEN Slice(HeldText, 0, VISIBLE_CHARS)
    ELSE _format_initial_scientific(self)

\* C15: whenever a number is displayed at shift 0 the text shown is the
\* initial rendering of its canonical form, whatever scrolls came before.
ShiftZeroShowsInitialRendering ==
    (result_display._sci_mode /\ result_display._sci_shift = 0) =>
        /\ result_display._var = InitialRendering(result_display)
        /\ ~result_display._force_scientific_current_shift

\* a number that scrolls is back at shift 0 after the forward scroll that
\* had its digits refined
ShiftZeroAfterScrolling ==
    /\ result_display._sci_mode
    /\ result_display._sci_shift = 0
    /\ call.op = "request_more_precision"
    /\ call.raised = "None"
    /\ _last_engine_result = call.returned
    /\ Len(result_display._sci_digits) > _initial_digits
    /\ ScrollTimes(result_display, 1, 1)._sci_shift = 1
    /\ Len(result_display._var) = VISIBLE_CHARS

(***************************************************************************)
(* The layouts of the shifted view                                          *)
(***************************************************************************)
HasChar(text, c) == \E i \in 1..Len(text) : text[i] = c

\* the text without its sign
Unsigned(text) == IF text # <<>> /\ text[1] = "-" THEN SliceFrom(text, 1) ELSE text

\* a plain-decimal window that begins with the ellipsis and the decimal point,
\* the leading zeros of the value and its first digit after the point
IsDotStart(self, text) ==
    LET body == Unsigned(text)
        zeros == 0 - self._sci_exponent - 1
    IN  /\ Len(body) >= zeros + 3
        /\ body[1] = ELLIPSIS
        /\ body[2] = "."
        /\ Slice(body, 2, 2 + zeros) = Zeros(zeros)
        /\ body[zeros + 3] = self._sci_digits[1]
        /\ ~HasChar(text, "e")

\* the standard scientific form d.ddde-k of the value, without ellipsis
IsStandardScientific(self, text) ==
    LET body == Unsigned(text)
    IN  /\ ~HasChar(text, ELLIPSIS)
        /\ Len(body) >= 3
        /\ body[1] = self._sci_digits[1]
        /\ body[2] = "."
        /\ _parse_scientific(text).ok
        /\ _parse_scientific(text).exponent = self._sci_exponent

\* the ellipsis followed by digits, "e" and an exponent
IsEllipsisScientific(text) ==
    LET body == Unsigned(text)
    IN  /\ Len(body) >= 2
        /\ body[1] = ELLIPSIS
        /\ HasChar(body, "e")
        /\ ~HasChar(body, ".")

\* a displayed non-integer of magnitude below 1, read from a plain decimal
\* text that overflows the window, before any scroll
OverflowingFractionAtStart(self) ==
    /\ self._sci_mode
    /\ self._sci_shift = 0
    /\ ~self._force_scientific_current_shift
    /\ self._sci_source_kind = "decimal"
    /\ self._sci_exponent < 0
    /\ Len(self._sci_initial_text) > VISIBLE_CHARS

\* C16: for a displayed non-integer of magnitude below 1 whose plain decimal
\* text overflows the window, the first forward scroll shows a plain-decimal
\* window that begins with the ellipsis and the decimal point followed by the
\* value's leading zeros, the second shows the standard scientific form
\* d.ddde-k without ellipsis, and the third shows the ellipsis-scientific layout.
DotStartBridgeEllipsisOrder ==
    OverflowingFractionAtStart(result_display) =>
        /\ IsDotStart(result_display, ScrollTimes(result_display, 1, 1)._var)
        /\ IsStandardScientific(result_display, ScrollTimes(result_display, 1, 2)._var)
        /\ IsEllipsisScientific(ScrollTimes(result_display, 1, 3)._var)

\* the forward scrolls of the retraced walk
MaxRetrace == 4

\* the first n forward scrolls from `self` each showed a new text
ForwardTextsDiffer(self, n) ==
    \A i \in 1..n : ScrollTimes(self, 1, i)._var # ScrollTimes(self, 1, i - 1)._var

\* C17: when forward scrolls from the initial view of a displayed number
\* showed the texts t1, ..., tk in that order, each backward scroll from tk
\* shows the text shown immediately before: t(k-1), ..., t1, then the initial
\* text.
BackwardRetracesForward ==
    (result_display._sci_mode /\ result_display._sci_shift = 0
        /\ ~result_display._force_scientific_current_shift) =>
        \A k \in 1..MaxRetrace :
            ForwardTextsDiffer(result_display, k) =>
                \A j \in 1..k :
                    ScrollTimes(ScrollTimes(result_display, 1, k), 0 - 1, j)._var =
                        ScrollTimes(result_display, 1, k - j)._var

\* the plain-decimal window of a non-integer: the ellipsis, then digits with
\* or without the decimal point, no exponent
ShowsPlainDecimalWindow(self) ==
    /\ self._sci_mode
    /\ self._sci_shift > 0
    /\ ~_is_exact_integer_scientific_value(self)
    /\ Unsigned(self._var) # <<>>
    /\ Unsigned(self._var)[1] = ELLIPSIS
    /\ ~HasChar(self._var, "e")

\* the window ends at the last digit of the digit string
AtLastDigit(self) ==
    _plain_decimal_right_edge(self, self._sci_shift) = Len(_virtual_digits_for_shifting(self))

\* C18: a plain-decimal window of a non-integer that hides earlier digits
\* shows as many characters as the window can hold, and once its right edge
\* is the last digit of the digit string forward scrolling stops: a further
\* forward scroll changes neither the text nor the shift.
NoOverScrollInPlainDecimalWindow ==
    ShowsPlainDecimalWindow(result_display) =>
        /\ Len(StripEllipsis(result_display._var)) = VISIBLE_CHARS
        /\ AtLastDigit(result_display) =>
               /\ _advance_scientific(result_display, 1)._var = result_display._var
               /\ _advance_scientific(result_display, 1)._sci_shift = result_display._sci_shift

\* the digits between the ellipsis and the "e" of an ellipsis-scientific text
ShownMantissa(text) == Slice(Unsigned(text), 1, RFind(Unsigned(text), "e"))

\* a displayed exact integer with more trailing zeros than half the window
ManyTrailingZeros(self) ==
    /\ self._sci_mode
    /\ _is_exact_integer_scientific_value(self)
    /\ _integer_trailing_zeros(self) # None
    /\ _integer_trailing_zeros(self) > VISIBLE_CHARS \div 2

\* a state reached by scrolling that a forward scroll leaves as it is
TerminalState(self) ==
    /\ self._sci_shift > 0
    /\ _advance_scientific(self, 1)._var = self._var
    /\ _advance_scientific(self, 1)._sci_shift = self._sci_shift

\* C19: for a displayed exact integer with more than VISIBLE_CHARS / 2
\* trailing zeros, the terminal state of forward scrolling is the
\* ellipsis-scientific layout whose mantissa ends at the last non-zero digit
\* and whose exponent is the number of trailing zeros, and no
\* ellipsis-scientific state shows a trailing zero of the integer in its
\* mantissa: the exponent shown is never below the number of trailing zeros.
ManyTrailingZerosClampScientific ==
    ManyTrailingZeros(result_display) =>
        /\ TerminalState(result_display) =>
               /\ IsEllipsisScientific(result_display._var)
               /\ _exponent_of_shifted_text(result_display._var) =
                      _integer_trailing_zeros(result_display)
               /\ LastChars(ShownMantissa(result_display._var), 1) # <<"0">>
        /\ IsEllipsisScientific(result_display._var) =>
               _exponent_of_shifted_text(result_display._var) >=
                   _integer_trailing_zeros(result_display)

\* the ellipsis followed by digits only, no exponent and no decimal point
ShowsPlainTail(self) ==
    /\ self._sci_mode
    /\ Len(Unsigned(self._var)) >= 2
    /\ Unsigned(self._var)[1] = ELLIPSIS
    /\ IsDigits(SliceFrom(Unsigned(self._var), 1))

\* C20: whenever the text shown is the ellipsis followed by digits only, the
\* value is an exact integer with at most VISIBLE_CHARS / 2 trailing zeros
\* and the state is terminal: a further forward scroll changes neither the
\* text nor the shift.
PlainTailOnlyTerminalInteger ==
    ShowsPlainTail(result_display) =>
        /\ _is_exact_integer_scientific_value(result_display)
        /\ _integer_trailing_zeros(result_display) # None
        /\ _integer_trailing_zeros(result_display) <= VISIBLE_CHARS \div 2
        /\ _advance_scientific(result_display, 1)._var = result_display._var
        /\ _advance_scientific(result_display, 1)._sci_shift = result_display._sci_shift

(***************************************************************************)
(* Further properties of the layouts                                        *)
(***************************************************************************)
\* C21: while an exact integer (exponent >= digit count - 1) is displayed,
\* the text shown never ends with a decimal point, and the plain-decimal
\* window is chosen at no shift: a shifted view of it holds no decimal point.
ExactIntegerNeverInPlainDecimalWindow ==
    (result_display._sci_mode /\ _is_exact_integer_scientific_value(result_display)) =>
        /\ LastChars(result_display._var, 1) # <<".">>
        /\ ~_should_render_plain_decimal_window(result_display, result_display._sci_shift)
        /\ result_display._sci_shift > 0 => ~HasChar(result_display._var, ".")

\* an exact integer scrolled to where its units digit is at the right edge
ExactIntegerScrolledToUnits ==
    /\ result_display._sci_mode
    /\ _is_exact_integer_scientific_value(result_display)
    /\ result_display._sci_shift > 0
    /\ ShowsPlainTail(result_display)
    /\ _integer_trailing_zeros(result_display) = 0

\* a displayed number with one significant digit and an exponent so far below
\* zero that the engine writes it in the exponent layout
SingleDigitTinyValue(self) ==
    /\ self._sci_mode
    /\ _last_value.kind = "mpf"
    /\ _last_engine_result # NoneText
    /\ CanonicalForm(_last_engine_result) = ShownCanonicalForm(self)
    /\ ValueOf(_last_value.expression).den = 1
    /\ ValueOf(_last_value.expression).num < 10
    /\ ValueOf(_last_value.expression).exp <= 0 - SCI_NOTATION_EXP_LIMIT

\* the digit, "e" and the exponent: 3e-30
ShortestScientific(v) ==
    v.sign \o NatToText(v.num) \o <<"e", "-">> \o NatToText(0 - v.exp)

\* C22: a result with a single significant digit and a large negative
\* exponent is displayed as the digit and the exponent alone (3e-30), with no
\* padded zero mantissa, and is not scrollable: every forward scroll leaves
\* the text and the shift unchanged.
SingleDigitNotScrollable ==
    SingleDigitTinyValue(result_display) =>
        /\ result_display._var = ShortestScientific(ValueOf(_last_value.expression))
        /\ result_display._sci_shift = 0
        /\ \A k \in 1..MaxLater :
               /\ ScrollTimes(result_display, 1, k)._var = result_display._var
               /\ ScrollTimes(result_display, 1, k)._sci_shift = 0

(***************************************************************************)
(* Properties of the copy operation                                         *)
(***************************************************************************)
\* the plain decimal text of sign * 0.d1d2...dn * 10^(exponent + 1): every
\* digit, with the zeros the exponent asks for before or after them
PlainDecimalText(sign, digits, exponent) ==
    IF exponent < 0
    THEN sign \o <<"0", ".">> \o Zeros(0 - exponent - 1) \o digits
    ELSE IF exponent >= Len(digits) - 1
    THEN sign \o digits \o Zeros(exponent - (Len(digits) - 1))
    ELSE sign \o Slice(digits, 0, exponent + 1) \o <<".">> \o SliceFrom(digits, exponent + 1)

\* C23: at every shift the text a copy of the displayed number puts on the
\* clipboard as its plain decimal is rebuilt from the sign, the digits and
\* the exponent of the canonical form, not from the windowed text: it is the
\* whole plain decimal text of the value, the same at every shift, with all
\* the zeros after "0." when the exponent is negative.
PlainDecimalCopyIsExact ==
    [][(CopyResult /\ result_display._sci_mode) =>
           clipboard' = PlainDecimalText(result_display._sci_sign,
                                         result_display._sci_digits,
                                         result_display._sci_exponent)]_vars

\* C24: in every scroll state the text a copy puts on the clipboard is the
\* text on display with the ellipsis marker removed: it never contains the
\* marker.
CopyStripsEllipsis ==
    [][CopyResult =>
           /\ clipboard' = StripEllipsis(result_display._var)
           /\ ~HasChar(clipboard', ELLIPSIS)]_vars

\* the four conditions of the prefetch: precision not exhausted, no request
\* outstanding, not a fitting initial text at shift 0, and at most
\* PREFETCH_MARGIN digits left beyond the fraction window of the shift shown
PrefetchDue(before, after) ==
    /\ ~before._precision_exhausted
    /\ ~before._loading_more
    /\ ~(after._sci_shift = 0 /\ _initial_text_fits_visible_window(after))
    /\ Len(after._sci_digits) - 1 - (after._sci_shift + SCI_FRACTION_WINDOW) <= PREFETCH_MARGIN

\* the step scheduled one request for more digits
RequestIssued ==
    /\ after_queue' = Append(after_queue, RequestMoreCallback)
    /\ result_display'._loading_more

\* C25: a forward scroll of a displayed number issues an expansion request
\* exactly when the precision is not exhausted, no request is outstanding, the
\* view is not a fitting initial text at shift 0, and
\* len(digits) - 1 - (shift + 30) <= 15; a backward scroll never issues one.
PrefetchTrigger ==
    [][/\ (ScrollForward /\ result_display._sci_mode)
              => (RequestIssued <=> PrefetchDue(result_display, result_display'))
       /\ ScrollBackward => after_queue' = after_queue]_vars

\* a scrolled view with more than PREFETCH_MARGIN digits in reserve, and no
\* request outstanding
ScrolledWithReserve ==
    /\ result_display._sci_mode
    /\ result_display._sci_shift > 0
    /\ ~result_display._precision_exhausted
    /\ ~result_display._loading_more
    /\ Len(result_display._sci_digits) - 1 - (result_display._sci_shift + SCI_FRACTION_WINDOW) > PREFETCH_MARGIN

\* the initial view of a number read from a plain decimal text longer than
\* the window
OverflowingDecimalInitialView(self) ==
    /\ self._sci_mode
    /\ self._sci_source_kind = "decimal"
    /\ Len(self._sci_initial_text) > VISIBLE_CHARS
    /\ self._sci_shift = 0
    /\ ~HasChar(self._var, ELLIPSIS)

\* a view with the ellipsis that a forward scroll still changes
NonTerminalShiftedView(self) ==
    /\ self._sci_mode
    /\ HasChar(self._var, ELLIPSIS)
    /\ _advance_scientific(self, 1)._var # self._var

\* C26: the initial view of an overflowing decimal result has exactly
\* VISIBLE_CHARS = 17 characters, and every non-terminal shifted view
\* (plain-decimal window or ellipsis-scientific) has exactly VISIBLE_CHARS
\* characters once the ellipsis is removed: sign, mantissa and exponent
\* suffix fill the width.
FullWidthRendering ==
    /\ OverflowingDecimalInitialView(result_display)
           => Len(result_display._var) = VISIBLE_CHARS
    /\ NonTerminalShiftedView(result_display)
           => Len(StripEllipsis(result_display._var)) = VISIBLE_CHARS

\* a negative value in the ellipsis-scientific layout, not the last view
NegativeScientificViewMidScroll ==
    /\ NonTerminalShiftedView(result_display)
    /\ result_display._sci_sign = <<"-">>
    /\ IsEllipsisScientific(result_display._var)

(***************************************************************************)
(* The canonical form of a displayed number                                *)
(***************************************************************************)
\* the scientific text of sign * d1.d2...dn * 10^exponent
ScientificText(sign, digits, exponent) ==
    sign \o <<digits[1]>>
         \o (IF Len(digits) > 1 THEN <<".">> \o SliceFrom(digits, 1) ELSE <<>>)
         \o <<"e">> \o SignedText(exponent)

\* the numeric text the display was last given: the plain decimal text it
\* keeps, or the scientific text the engine returned
TextOfNumber ==
    IF result_display._sci_source_kind = "decimal" THEN result_display._sci_initial_text
    ELSE _last_engine_result

\* C27: after every set_text of a numeric text the digit string is not empty,
\* its first character is a non-zero digit unless the digit string is exactly
\* "0", and the exponent is the decimal position of that first digit: the
\* text written from sign, digits and exponent is the text that was set.
CanonicalFormInvariant ==
    result_display._sci_mode =>
        /\ result_display._sci_digits # <<>>
        /\ IsDigits(result_display._sci_digits)
        /\ result_display._sci_digits[1] = "0" => result_display._sci_digits = <<"0">>
        /\ TextOfNumber =
               IF result_display._sci_source_kind = "decimal"
               THEN PlainDecimalText(result_display._sci_sign, result_display._sci_digits,
                                     result_display._sci_exponent)
               ELSE ScientificText(result_display._sci_sign, result_display._sci_digits,
                                   result_display._sci_exponent)

\* a plain decimal text with zeros between the point and its first digit
LeadingZerosDropped ==
    /\ result_display._sci_mode
    /\ result_display._sci_source_kind = "decimal"
    /\ result_display._sci_exponent < 0 - 1
    /\ result_display._sci_digits[1] # "0"
    /\ _last_engine_result = result_display._sci_initial_text

(***************************************************************************)
(* The exponent layout of the engine                                       *)
(***************************************************************************)
\* the value x is exactly the mantissa and the exponent that text shows
ExactlyShown(x, text) ==
    LET p == _parse_scientific(text)
        v == MpfAt(x, Len(p.digits))
    IN  /\ p.exponent = v.exp
        /\ KnownDigits(v, Len(p.digits)) = p.digits
        /\ Remainder(v.num, v.den, Len(p.digits) - Len(v.lead)) = 0

\* C28: whenever the engine returns a text in the exponent layout for a value
\* that is not exactly the mantissa shown times the power of ten, the mantissa
\* has all the requested digits; a text "d.0e+k" is returned only for a value
\* that is exactly d * 10^k.
NoMisleadinglyExactScientific ==
    (/\ _last_engine_result # NoneText
     /\ _last_value.kind = "mpf"
     /\ _parse_scientific(_last_engine_result).ok) =>
        /\ ~ExactlyShown(ValueOf(_last_value.expression), _last_engine_result)
               => Len(_parse_scientific(_last_engine_result).digits) = _working_digits
        /\ HasPointZeroE(_last_engine_result)
               => ExactlyShown(ValueOf(_last_value.expression), _last_engine_result)

(***************************************************************************)
(* The rewriting of postfix factorials                                     *)
(***************************************************************************)
\* the number of "!" at the end of the text
RECURSIVE TrailingBangs(_)
TrailingBangs(s) ==
    IF s # <<>> /\ s[Len(s)] = "!" THEN 1 + TrailingBangs(SubSeq(s, 1, Len(s) - 1)) ELSE 0

\* the depth of parentheses after each character of a group: above 0 until
\* the last one, where it is 0
RECURSIVE ParenDepth(_, _)
ParenDepth(s, n) ==
    IF n = 0 THEN 0
    ELSE ParenDepth(s, n - 1) + (IF s[n] = "(" THEN 1 ELSE IF s[n] = ")" THEN 0 - 1 ELSE 0)

\* an operand: a run of digits, a run of letters, or one balanced
\* parenthesized group, without any "!"
IsOperand(x) ==
    /\ x # <<>>
    /\ ~HasChar(x, "!")
    /\ \/ IsDigits(x)
       \/ \A i \in 1..Len(x) : x[i] \in AlphaSet
       \/ /\ x[1] = "("
          /\ ParenDepth(x, Len(x)) = 0
          /\ \A n \in 1..(Len(x) - 1) : ParenDepth(x, n) > 0

\* k calls of factorial around x
RECURSIVE Nested(_, _)
Nested(x, k) == IF k = 0 THEN x ELSE FactorialOpen \o Nested(x, k - 1) \o <<")">>

\* C29: for an operand x (a digit run, an identifier run or a balanced
\* parenthesized group) followed by k >= 1 "!" characters, _replace_factorial
\* returns k nested factorial(...) calls around x, and the text returned has
\* no "!" in it.
ChainedFactorialsRewritten ==
    LET expr == factorial_call.expr
        k == TrailingBangs(expr)
        x == SubSeq(expr, 1, Len(expr) - k)
    IN  (factorial_call.returned # NoneText /\ k >= 1 /\ IsOperand(x)) =>
            /\ factorial_call.returned = Nested(x, k)
            /\ ~HasChar(factorial_call.returned, "!")

(***************************************************************************)
(* The shift a forward scroll selects                                      *)
(***************************************************************************)
\* the forward scroll reaches the probe of lines 255-291: the text is not an
\* initial text that fits, and the view is not the dot-start window that is
\* first turned into the scientific layout of the same shift
ProbeRuns(self) ==
    /\ self._sci_mode
    /\ ~(self._sci_shift = 0 /\ _initial_text_fits_visible_window(self))
    /\ ~(/\ _is_plain_decimal_dot_start_state(self)
         /\ _build_shifted_scientific_text(self, self._sci_shift, FALSE).text # self._var)

MaxShift(self) == Max(0, Len(_virtual_digits_for_shifting(self)) - 1)

\* a shift that may be shown: full width, a plain-decimal window, a plain
\* tail, or under-full progress allowed
Admissible(self, c) ==
    \/ _build_shifted_scientific_text(self, c, FALSE).is_full_width
    \/ _should_render_plain_decimal_window(self, c)
    \/ _should_render_plain_tail(self, c)
    \/ _allow_underfull_progress(self, c)

\* the rendering of shift c is not the text on display
Differs(self, c) == _preview_scientific_text(self, c) # self._var

\* the plain-decimal window of shift c shows no digit beyond the window on
\* display, both with the decimal point inside the window
WindowAtItsEnd(self, c) ==
    LET width == Max(1, VISIBLE_CHARS - Len(self._sci_sign))
        edge == _plain_decimal_right_edge(self, self._sci_shift)
        dot == _plain_decimal_dot_position(self, self._sci_shift)
    IN  /\ _should_render_plain_decimal_window(self, c)
        /\ None \notin {edge, dot, _plain_decimal_right_edge(self, c),
                        _plain_decimal_dot_position(self, c)}
        /\ dot < width
        /\ _plain_decimal_dot_position(self, c) < width
        /\ _plain_decimal_right_edge(self, c) <= edge

SmallestOf(S, otherwise) ==
    IF S = {} THEN otherwise ELSE CHOOSE c \in S : \A d \in S : c <= d

\* the smallest admissible candidate above the shift whose rendering differs,
\* the shift itself when there is none
SelectedByRule(self) ==
    SmallestOf({c \in (self._sci_shift + 1)..MaxShift(self) :
                    Admissible(self, c) /\ Differs(self, c)},
               self._sci_shift)

\* the candidate at which the probe ends: the first admissible one whose
\* window is at its end or whose rendering differs
ProbeEnd(self) ==
    SmallestOf({c \in (self._sci_shift + 1)..MaxShift(self) :
                    Admissible(self, c) /\ (WindowAtItsEnd(self, c) \/ Differs(self, c))},
               MaxShift(self))

\* the shift after a probe that ends at candidate `last`: that candidate when
\* its rendering differs and its plain-decimal window is not at its end, the
\* shift as it was otherwise
SelectedAt(self, last) ==
    IF last > self._sci_shift
       /\ Admissible(self, last)
       /\ ~WindowAtItsEnd(self, last)
       /\ Differs(self, last)
    THEN last
    ELSE self._sci_shift

SelectedWithStop(self) == SelectedAt(self, ProbeEnd(self))

\* the candidates the probe examines when it ends at `last`: from
\* min(shift + 1, max_shift), when that is above 0, to `last`
ExaminedTo(self, last) ==
    LET first == Min(self._sci_shift + 1, MaxShift(self))
    IN  IF first <= 0 THEN 0 ELSE Max(last, first) - first + 1

ProbeExamined(self) == ExaminedTo(self, ProbeEnd(self))

\* C30: a forward scroll from shift s sets the shift to the smallest
\* candidate in s+1 .. max_shift that is admissible and whose rendering
\* differs from the text on display, and leaves the shift at s when there is
\* none; the probe examines at most max_shift - s candidates.
ForwardScrollSelection ==
    [][(ProbeRuns(result_display) /\ ScrollForward) =>
           /\ result_display'._sci_shift = SelectedByRule(result_display)
           /\ ProbeExamined(result_display) <= MaxShift(result_display) - result_display._sci_shift]_vars

\* C30 as amended: the probe also ends, without a move, at the first
\* admissible candidate whose plain-decimal window shows no digit beyond the
\* window on display; otherwise the shift becomes the first admissible
\* candidate whose rendering differs, and stays when there is none. The probe
\* examines at most max_shift - s candidates.
ForwardScrollSelectionWithStop ==
    [][(ProbeRuns(result_display) /\ ScrollForward) =>
           LET last == ProbeEnd(result_display)
           IN  /\ result_display'._sci_shift = SelectedAt(result_display, last)
               /\ ExaminedTo(result_display, last)
                      <= MaxShift(result_display) - result_display._sci_shift]_vars

\* a plain-decimal window at its end while a later shift would render
\* another text
ProbeStoppedBeforeCandidate ==
    /\ ProbeRuns(result_display)
    /\ result_display._sci_shift > 0
    /\ SelectedWithStop(result_display) = result_display._sci_shift
    /\ SelectedByRule(result_display) > result_display._sci_shift

(***************************************************************************)
(* The backward scroll                                                     *)
(***************************************************************************)
\* C31: a backward scroll of a displayed number changes the shift from s to
\* exactly max(0, s - 1), the clamping of the rendering included, and clears
\* the forced-bridge flag.
BackwardScrollDecrements ==
    [][(result_display._sci_mode /\ ScrollBackward) =>
           /\ result_display'._sci_shift = Max(0, result_display._sci_shift - 1)
           /\ ~result_display'._force_scientific_current_shift]_vars

\* a view two or more shifts from the start that a backward scroll takes
\* one shift back, to another text
SteppingBackOneShift ==
    /\ result_display._sci_mode
    /\ result_display._sci_shift > 1
    /\ _advance_scientific(result_display, 0 - 1)._sci_shift = result_display._sci_shift - 1
    /\ _advance_scientific(result_display, 0 - 1)._var # result_display._var

(***************************************************************************)
(* The engine after a call that raises                                     *)
(***************************************************************************)
\* C32: when evaluate or request_more_precision raises, the stored
\* expression, the working digits and the last value of the engine are what
\* they were before the call.
FailingCallKeepsEngineState ==
    [][(call' # call /\ call'.raised # "None") => UNCHANGED engine_vars]_vars

(***************************************************************************)
(* Several expressions submitted one after another                          *)
(***************************************************************************)
\* every worker thread has ended and every callback it posted has run
AllWorkersFinished == Threads = {} /\ after_queue = <<>>

\* the texts evaluate and the expansions after it return for `expr`, "None"
\* when its evaluation raises
ResultsOf(expr) ==
    {IF Raised(_evaluate_with_digits(expr, digits)) THEN NoneText
     ELSE _format_result(_evaluate_with_digits(expr, digits), digits) :
         digits \in {_initial_digits + k * _precision_step : k \in 0..MaxExpansions}}

\* the display shows the result of `expr`: its number, or the error message
\* of its evaluation
DisplaysResultOf(expr) ==
    LET outcome == _evaluate_with_digits(expr, _initial_digits)
    IN  IF Raised(outcome)
        THEN result_display._var = ErrorPrefix \o ErrorMessage(outcome.kind)
        ELSE \E text \in ResultsOf(expr) : Shows(text)

\* C33: once every worker has finished and every callback has run, the
\* display shows the result of the most recently submitted expression,
\* _last_engine_result holds it and the engine's stored expression is that
\* expression.
LatestSubmissionWins ==
    (AllWorkersFinished /\ history.latest # "None") =>
        /\ _last_expression = history.latest
        /\ _last_engine_result \in ResultsOf(history.latest)
        /\ DisplaysResultOf(history.latest)

(***************************************************************************)
(* Clear and the expansions under way                                       *)
(***************************************************************************)
\* C34: after a clear event that came with no evaluation under way, and until
\* the next calculate event, the display shows "0" and _last_engine_result is
\* None, whatever the workers of earlier expansion requests do afterwards.
ClearIsFinal ==
    history.cleared =>
        /\ result_display._var = <<"0">>
        /\ _last_engine_result = NoneText

(***************************************************************************)
(* The precision-exhausted flag and the result on display                   *)
(***************************************************************************)
\* the text of `expr` at `digits` working digits, "None" when its evaluation
\* raises
TextAt(expr, digits) ==
    IF Raised(_evaluate_with_digits(expr, digits)) THEN NoneText
    ELSE _format_result(_evaluate_with_digits(expr, digits), digits)

\* the display shows a result whose expansion returns an unchanged text
ShowsExhaustedResult ==
    \E expr \in ConcurrentExpressions :
        \E digits \in {_initial_digits + k * _precision_step : k \in 0..MaxExpansions} :
            /\ TextAt(expr, digits) # NoneText
            /\ Shows(TextAt(expr, digits))
            /\ TextAt(expr, digits + _precision_step) = TextAt(expr, digits)

\* C35: the precision-exhausted flag is true only for the result it was
\* computed for: once the result of a calculate event submitted while an
\* expansion request for the result on display was under way has been
\* displayed, the flag is not true, before that request has finished, on a
\* display showing a result whose expansion returns a different text (a
\* mark_precision_exhausted of that request has not taken effect on it).
StaleMarkNeverTakesEffect ==
    (history.request = "displayed" /\ history.shown
         /\ result_display._precision_exhausted) => ShowsExhaustedResult

(***************************************************************************)
(* The angle mode and the expansions                                        *)
(***************************************************************************)
\* _toggle_angle, lines 989-998: engine.angle_mode = "deg" or "rad"
ToggleAngle ==
    /\ _angle_mode' = IF _angle_mode = "rad" THEN "deg" ELSE "rad"
    /\ UNCHANGED <<engine_vars, result_display, _last_engine_result, after_queue,
                   threads, call, events, history, clipboard, factorial_call>>

\* a trigonometric expression, whose value depends on the angle mode, and
\* one that has none
AngleExpressions == {"sin(30)", "5/7"}

NextAngle ==
    \/ \E expr \in AngleExpressions : SeqCalculate(expr)
    \/ ScrollForward
    \/ ScrollBackward
    \/ SeqExpansion
    \/ ToggleAngle

SpecAngle == Init /\ [][NextAngle]_vars

\* C36: an expansion computes the value of the stored expression under the
\* angle mode the evaluation of that expression was made in: the value it
\* stores is the value the engine held, at more digits.
ExpansionKeepsAngleMode ==
    [][(/\ call' # call
        /\ call'.op = "request_more_precision"
        /\ call'.raised = "None"
        /\ _last_value.kind = "mpf") =>
           ValueOf(_last_value'.expression) = ValueOf(_last_value.expression)]_vars

(***************************************************************************)
(* The worker threads and the callbacks eventually run                      *)
(***************************************************************************)
\* a step of a worker thread, or the main loop running the callback at the
\* head of its queue
Runs ==
    \/ RequestMorePrecision
    \/ SetText
    \/ MarkPrecisionExhausted
    \/ FinishLoadingMore
    \/ \E th \in Threads : EvaluateStoreExpression(th)
    \/ \E th \in Threads : EvaluateResetDigits(th)
    \/ \E th \in Threads : EvaluateCall(th)
    \/ \E th \in Threads : EvaluateStoreValue(th)
    \/ \E th \in Threads : EvaluateFormat(th)
    \/ \E th \in Threads : CalculateStoreResult(th)
    \/ \E th \in Threads : CalculatePost(th)
    \/ \E th \in Threads : CalculateExceptStoreNone(th)
    \/ \E th \in Threads : CalculateExceptPost(th)
    \/ \E th \in Threads : RequestMoreCheck(th)
    \/ \E th \in Threads : RequestMoreReadDigits(th)
    \/ \E th \in Threads : RequestMoreWriteDigits(th)
    \/ \E th \in Threads : RequestMoreCall(th)
    \/ \E th \in Threads : RequestMoreStoreValue(th)
    \/ \E th \in Threads : RequestMoreFormat(th)
    \/ \E th \in Threads : RequestMoreCompare(th)
    \/ \E th \in Threads : RequestMorePostMark(th)
    \/ \E th \in Threads : RequestMoreStoreResult(th)
    \/ \E th \in Threads : RequestMorePostSetText(th)
    \/ \E th \in Threads : RequestMoreFinally(th)

\* the user's events, up to MaxLiveEvents of them
MaxLiveEvents == 2
UserEvent ==
    /\ events < MaxLiveEvents
    /\ \/ \E expr \in ConcurrentExpressions : Calculate(expr)
       \/ UserScrollForward
       \/ UserClear

NextLive == UserEvent \/ Runs

\* SetText is enabled: a set_text is at the head of the queue
SetTextEnabled == after_queue # <<>> /\ Head(after_queue).fn = "set_text"

\* The main loop runs the callback at the head of its queue.  The condition
\* on SetText is WF_vars(SetText) written out, with the state predicate
\* that ENABLED <<SetText>>_vars is.
CallbacksRun ==
    /\ WF_vars(RequestMorePrecision)
    /\ ([]<>(~SetTextEnabled) \/ []<><<SetText>>_vars)
    /\ WF_vars(MarkPrecisionExhausted)
    /\ WF_vars(FinishLoadingMore)

\* EvaluateFormat and RequestMoreFormat are enabled: a thread is at the step
FormatEnabled(pc) == \E th \in Threads : th.pc = pc

\* The worker threads are scheduled: a thread that has a step to take takes
\* it.  The conditions on the two format steps are their WF_vars written
\* out, with the state predicates their ENABLED are.
WorkersRun ==
    /\ WF_vars(\E th \in Threads : EvaluateStoreExpression(th))
    /\ WF_vars(\E th \in Threads : EvaluateResetDigits(th))
    /\ WF_vars(\E th \in Threads : EvaluateCall(th))
    /\ WF_vars(\E th \in Threads : EvaluateStoreValue(th))
    /\ ([]<>(~FormatEnabled("evaluate_format"))
           \/ []<><<\E th \in Threads : EvaluateFormat(th)>>_vars)
    /\ WF_vars(\E th \in Threads : CalculateStoreResult(th))
    /\ WF_vars(\E th \in Threads : CalculatePost(th))
    /\ WF_vars(\E th \in Threads : CalculateExceptStoreNone(th))
    /\ WF_vars(\E th \in Threads : CalculateExceptPost(th))
    /\ WF_vars(\E th \in Threads : RequestMoreCheck(th))
    /\ WF_vars(\E th \in Threads : RequestMoreReadDigits(th))
    /\ WF_vars(\E th \in Threads : RequestMoreWriteDigits(th))
    /\ WF_vars(\E th \in Threads : RequestMoreCall(th))
    /\ WF_vars(\E th \in Threads : RequestMoreStoreValue(th))
    /\ ([]<>(~FormatEnabled("request_more_format"))
           \/ []<><<\E th \in Threads : RequestMoreFormat(th)>>_vars)
    /\ WF_vars(\E th \in Threads : RequestMoreCompare(th))
    /\ WF_vars(\E th \in Threads : RequestMorePostMark(th))
    /\ WF_vars(\E th \in Threads : RequestMoreStoreResult(th))
    /\ WF_vars(\E th \in Threads : RequestMorePostSetText(th))
    /\ WF_vars(\E th \in Threads : RequestMoreFinally(th))

FairSpec == Init /\ [][NextLive]_vars /\ CallbacksRun /\ WorkersRun

ShiftBounds ==
    result_display._sci_mode =>
        /\ 0 <= result_display._sci_shift
        /\ result_display._sci_shift <= MaxShift(result_display)

(***************************************************************************)
(* The working digits under concurrent calls                                *)
(***************************************************************************)
\* C39: no interleaving of the workers makes an expansion evaluate at a digit
\* count lower than or equal to the one of the result it refines, or lose
\* its increment: every result is computed at _initial_digits digits or more,
\* so the digits request_more_precision passes to _evaluate_with_digits are
\* more than _initial_digits.
ExpansionDigitsIncrease ==
    \A th \in Threads : th.pc = "request_more_value" => th.digits > _initial_digits

(***************************************************************************)
(* A decimal result that fits the display                                   *)
(***************************************************************************)
\* a decimal result is on display at shift 0 and its full text is no longer
\* than the display is wide
FittingDecimalResult ==
    /\ result_display._sci_mode
    /\ result_display._sci_source_kind = "decimal"
    /\ result_display._sci_shift = 0
    /\ Len(result_display._sci_initial_text) <= VISIBLE_CHARS

\* C40: a forward scroll of a decimal result whose full text fits the display
\* leaves the shift at 0 and the text as it is, and schedules no expansion
\* request.
FittingDecimalNotScrollable ==
    FittingDecimalResult =>
        /\ _scroll_unit(result_display, 1)._sci_shift = 0
        /\ _scroll_unit(result_display, 1)._var = result_display._var
        /\ _scroll_unit(result_display, 1)._entry_after = <<>>

\* a decimal result of several digits fits the display, and the forward
\* scroll leaves the display as it is
FittingDecimalScrolled ==
    /\ FittingDecimalResult
    /\ Len(result_display._sci_digits) > 1
    /\ _last_engine_result = result_display._var
    /\ _scroll_unit(result_display, 1) = result_display

====
